---- MODULE Spec2Model ----
(***************************************************************************)
(* A model of firststreet/api/csv_format.py: the dispatcher to_csv, the    *)
(* geometry resolver get_geom_center, the shape formatters and the         *)
(* serializer step, over an explicit model of the pandas values and        *)
(* DataFrame operations the formatters are written with.                   *)
(*                                                                         *)
(* One behaviour is one call: Init draws the call (function and            *)
(* arguments) and the filesystem it starts from, the action of the called  *)
(* function computes its whole effect, and the outcome is left in ret.     *)
(* The methods of firststreet/api/historic.py run in steps: pc is the      *)
(* position in the method, api the call_api requests made so far and frame *)
(* the method's local variables.                                           *)
(***************************************************************************)
EXTENDS Integers, Sequences, FiniteSets, TLC

VARIABLES call, ret, fs, pc, api, frame

vars == <<call, ret, fs, pc, api, frame>>

(***************************************************************************)
(* Python / pandas values.  Every value is a record tagged by its kind k.  *)
(***************************************************************************)
None == [k |-> "None"]
NaN == [k |-> "nan"]
NA == [k |-> "NA"]
I(n) == [k |-> "int", i |-> n]
\* A float holds its value in units of 1/10000: F(15000) is 1.5.
F(u) == [k |-> "float", u |-> u]
float(n) == F(n * 10000)
S(s) == [k |-> "str", s |-> s]
B(b) == [k |-> "bool", b |-> b]
L(l) == [k |-> "list", l |-> l]
D(d) == [k |-> "dict", d |-> d]

isna(v) == v.k \in {"None", "nan", "NA"}

\* repr of a non-negative float: the whole part, a point, and the decimals
\* without trailing zeros (at least one).
digit(frac, place) == ToString((frac \div place) % 10)

float_str(u) ==
    LET frac == u % 10000
    IN ToString(u \div 10000) \o "." \o digit(frac, 1000)
         \o (IF frac % 1000 = 0 THEN "" ELSE digit(frac, 100))
         \o (IF frac % 100 = 0 THEN "" ELSE digit(frac, 10))
         \o (IF frac % 10 = 0 THEN "" ELSE digit(frac, 1))

\* str(v), as Series.apply(str) and astype(str) render a cell.
NA_STR == "<NA>"

str(v) ==
    CASE v.k = "None" -> "None"
      [] v.k = "nan" -> "nan"
      [] v.k = "NA" -> NA_STR
      [] v.k = "int" -> ToString(v.i)
      [] v.k = "float" -> float_str(v.u)
      [] v.k = "str" -> v.s
      [] v.k = "bool" -> IF v.b THEN "True" ELSE "False"
      [] OTHER -> "<object>"

\* bool(v): the truth value Series.all() reads from a cell.
truthy(v) ==
    CASE v.k = "bool" -> v.b
      [] v.k = "int" -> v.i # 0
      [] v.k = "str" -> v.s # ""
      [] v.k = "None" -> FALSE
      [] v.k = "list" -> v.l # <<>>
      [] OTHER -> TRUE

\* str.zfill(width): left-pad with "0" up to width; longer strings unchanged.
RECURSIVE zfill(_, _)
zfill(s, width) == IF Len(s) >= width THEN s ELSE zfill("0" \o s, width)

RECURSIVE ConcatAll(_)
ConcatAll(ss) == IF ss = <<>> THEN <<>> ELSE Head(ss) \o ConcatAll(Tail(ss))

Range(s) == {s[i] : i \in DOMAIN s}

(***************************************************************************)
(* DataFrames.  A frame is [err, cols, rows]: cols is the header (column   *)
(* labels in order, the integer label 0 written "0"), rows a sequence of   *)
(* functions from the labels to cells.  err # "" is a raised exception,    *)
(* which every later operation on the frame passes on.                     *)
(***************************************************************************)
Raise(e) == [err |-> e, cols |-> <<>>, rows |-> <<>>]

Frame(cols, rows) == [err |-> "", cols |-> cols, rows |-> rows]

Raised(v) == [k |-> "raise", e |-> v]

has(t, c) == c \in Range(t.cols)

RECURSIVE SetToSeq(_)
SetToSeq(A) == IF A = {} THEN <<>> ELSE LET a == CHOOSE x \in A : TRUE IN <<a>> \o SetToSeq(A \ {a})

Column(t, c) == [i \in DOMAIN t.rows |-> t.rows[i][c]]

\* The dtype pandas infers for a column built from Python objects: integers
\* beside missing values (or floats) become float64, the missing ones NaN.
infer_dtype(vals) ==
    LET ks == {vals[i].k : i \in DOMAIN vals}
    IN IF /\ ks \subseteq {"int", "float", "None", "nan"}
          /\ ks \cap {"int", "float"} # {}
          /\ ks \cap {"None", "nan", "float"} # {}
       THEN [i \in DOMAIN vals |-> IF isna(vals[i]) THEN NaN
                                    ELSE IF vals[i].k = "int" THEN float(vals[i].i)
                                    ELSE vals[i]]
       ELSE vals

\* Re-infer the listed columns of a frame.
Inferred(t, cs) ==
    LET col == [c \in cs |-> infer_dtype(Column(t, c))]
    IN Frame(t.cols, [i \in DOMAIN t.rows |->
                        [c \in DOMAIN t.rows[i] |-> IF c \in cs THEN col[c][i] ELSE t.rows[i][c]]])

\* pd.DataFrame([vars(o) for o in data]); attrs is the attribute order of
\* the record class.  An empty list gives a frame without columns.
DataFrame(data, attrs) ==
    IF data = <<>> THEN Frame(<<>>, <<>>)
    ELSE Inferred(Frame(attrs, data), Range(attrs))

\* A flattening that has no row for an empty list.
explode_skipping_empty(t, c) ==
    IF t.err # "" THEN t
    ELSE IF c \notin {t.cols[i] : i \in DOMAIN t.cols} THEN [err |-> "KeyError", cols |-> <<>>, rows |-> <<>>]
    ELSE [err |-> "", cols |-> t.cols,
          rows |-> ConcatAll([i \in DOMAIN t.rows |->
                      IF t.rows[i][c].k = "list"
                      THEN [j \in DOMAIN t.rows[i][c].l |-> [t.rows[i] EXCEPT ![c] = t.rows[i][c].l[j]]]
                      ELSE <<t.rows[i]>>])]

\* df.explode(c): one row per element of a non-empty list, NaN for an empty
\* list, every other cell (None included) unchanged.
explode(t, c) ==
    IF t.err # "" THEN t
    ELSE IF ~has(t, c) THEN Raise("KeyError")
    ELSE Frame(t.cols, ConcatAll([i \in DOMAIN t.rows |->
            LET r == t.rows[i]
                v == r[c]
            IN IF v.k = "list"
               THEN IF v.l = <<>> THEN <<[r EXCEPT ![c] = NaN]>>
                    ELSE [j \in DOMAIN v.l |-> [r EXCEPT ![c] = v.l[j]]]
               ELSE <<r>>]))

\* The index pd.Series(v) has: the keys of a dict, nothing for None, the
\* single label 0 for any other scalar.
series_index(v) ==
    CASE v.k = "dict" -> DOMAIN v.d
      [] v.k = "None" -> {}
      [] OTHER -> {"0"}

series_at(v, key) ==
    CASE v.k = "dict" -> IF key \in DOMAIN v.d THEN v.d[key] ELSE NaN
      [] v.k = "None" -> NaN
      [] OTHER -> IF key = "0" THEN v ELSE NaN

\* df.drop([c], axis=1)
drop(t, c) ==
    IF t.err # "" THEN t
    ELSE IF ~has(t, c) THEN Raise("KeyError")
    ELSE LET keep == Range(t.cols) \ {c}
         IN Frame(SelectSeq(t.cols, LAMBDA x : x # c),
                  [i \in DOMAIN t.rows |-> [x \in keep |-> t.rows[i][x]]])

\* pd.concat([df.drop([c], axis=1), df[c].apply(pd.Series)], axis=1)
expand(t, c) ==
    IF t.err # "" THEN t
    ELSE IF ~has(t, c) THEN Raise("KeyError")
    ELSE LET keys == UNION {series_index(t.rows[i][c]) : i \in DOMAIN t.rows}
             rest == drop(t, c)
             all == Range(rest.cols) \cup keys
         IN Inferred(Frame(rest.cols \o SetToSeq(keys),
                           [i \in DOMAIN t.rows |->
                              [x \in all |-> IF x \in keys THEN series_at(t.rows[i][c], x)
                                             ELSE t.rows[i][x]]]),
                     keys)

\* df.rename(columns=m, inplace=True); m maps old labels to new ones.
rename(t, m) ==
    IF t.err # "" THEN t
    ELSE LET new(c) == IF c \in DOMAIN m THEN m[c] ELSE c
             old(n) == CHOOSE c \in Range(t.cols) : new(c) = n
         IN Frame([i \in DOMAIN t.cols |-> new(t.cols[i])],
                  [i \in DOMAIN t.rows |->
                     [n \in {new(c) : c \in Range(t.cols)} |-> t.rows[i][old(n)]]])

\* df[c] = v for a scalar v: a new column goes last.
assign(t, c, v) ==
    IF t.err # "" THEN t
    ELSE Frame(IF has(t, c) THEN t.cols ELSE Append(t.cols, c),
               [i \in DOMAIN t.rows |->
                  [x \in Range(t.cols) \cup {c} |-> IF x = c THEN v ELSE t.rows[i][x]]])

\* An apply that leaves a cell as it is when Op raises for it.
map_skipping_errors(t, c, Op(_)) ==
    IF t.err # "" THEN t
    ELSE IF ~has(t, c) THEN Raise("KeyError")
    ELSE Frame(t.cols, [i \in DOMAIN t.rows |->
            [t.rows[i] EXCEPT ![c] = IF Op(t.rows[i][c]).k = "raise" THEN None
                                     ELSE Op(t.rows[i][c])]])

\* df[c] = df[c].apply(Op) (or a cast): reading a missing column raises
\* KeyError, and an exception raised for a cell is raised by the whole.
map(t, c, Op(_)) ==
    IF t.err # "" THEN t
    ELSE IF ~has(t, c) THEN Raise("KeyError")
    ELSE LET new == [i \in DOMAIN t.rows |-> Op(t.rows[i][c])]
             bad == {i \in DOMAIN new : new[i].k = "raise"}
         IN IF bad # {} THEN Raise(new[CHOOSE i \in bad : \A j \in bad : i <= j].e)
            ELSE Frame(t.cols, [i \in DOMAIN t.rows |-> [t.rows[i] EXCEPT ![c] = new[i]]])

\* A selection that projects nothing: the frame as the formatter built it.
select_unprojected(t, cs) == t

\* df[[c1, ..., cn]]: KeyError if a label is missing; a label that occurs
\* more than once in the frame is returned as often as it occurs.
select(t, cs) ==
    IF t.err # "" THEN t
    ELSE IF \E i \in DOMAIN cs : ~has(t, cs[i]) THEN Raise("KeyError")
    ELSE Frame(ConcatAll([i \in DOMAIN cs |-> SelectSeq(t.cols, LAMBDA x : x = cs[i])]),
               [i \in DOMAIN t.rows |-> [x \in Range(cs) |-> t.rows[i][x]]])

\* astype('Int64'): missing values become pd.NA, integral numbers integers.
Int64(v) ==
    CASE isna(v) -> NA
      [] v.k = "int" -> v
      [] v.k = "float" -> IF v.u % 10000 = 0 THEN I(v.u \div 10000) ELSE Raised("TypeError")
      [] v.k = "bool" -> I(IF v.b THEN 1 ELSE 0)
      [] OTHER -> Raised("TypeError")

apply_str(v) == S(str(v))

\* .astype('Int64').apply(str)
Int64_str(v) == IF Int64(v).k = "raise" THEN Int64(v) ELSE apply_str(Int64(v))

\* Series.round(3): floats to three decimals (ties to even), the rest as is.
round3(v) ==
    IF v.k # "float" THEN v
    ELSE LET low == v.u - (v.u % 10)
             rem == v.u % 10
         IN F(IF rem > 5 \/ (rem = 5 /\ (low \div 10) % 2 = 1) THEN low + 10 ELSE low)

\* df[c].isna().values.all()
all_na(t, c) == \A i \in DOMAIN t.rows : isna(t.rows[i][c])


\* pd.json_normalize([vars(o) for o in data]): as DataFrame, with every
\* dict-valued attribute flattened into dotted columns.
json_normalize(data, attrs) ==
    IF data = <<>> THEN Frame(<<>>, <<>>)
    ELSE LET sub(a) == UNION {IF data[i][a].k = "dict" THEN DOMAIN data[i][a].d ELSE {}
                              : i \in DOMAIN data}
             plain(a) == \E i \in DOMAIN data : data[i][a].k # "dict"
             dotted(a) == [j \in DOMAIN SetToSeq(sub(a)) |-> a \o "." \o SetToSeq(sub(a))[j]]
             cols == ConcatAll([j \in DOMAIN attrs |->
                        (IF plain(attrs[j]) THEN <<attrs[j]>> ELSE <<>>) \o dotted(attrs[j])])
             cell(r, c) ==
                 IF c \in Range(attrs)
                 THEN IF r[c].k = "dict" THEN NaN ELSE r[c]
                 ELSE LET a == CHOOSE a \in Range(attrs) : \E key \in sub(a) : c = a \o "." \o key
                          key == CHOOSE key \in sub(a) : c = a \o "." \o key
                      IN IF r[a].k = "dict" /\ key \in DOMAIN r[a].d THEN r[a].d[key] ELSE NaN
         IN Inferred(Frame(cols, [i \in DOMAIN data |-> [c \in Range(cols) |-> cell(data[i], c)]]),
                     Range(cols))

\* pd.merge(left, right, left_on=lon, right_on=ron, how=how): every left
\* row, in order, once per right row with equal keys (missing keys equal
\* each other); a left row without any is kept once, its right columns
\* NaN, by how='left' and left out by how='inner'.  A key with the same
\* label on both sides is kept once; other shared labels get _x and _y.
key_eq(a, b) == (isna(a) /\ isna(b)) \/ a = b

pd_merge(left, right, lon, ron, how) ==
    IF left.err # "" THEN left
    ELSE IF right.err # "" THEN right
    ELSE IF \E i \in DOMAIN lon : ~has(left, lon[i]) \/ ~has(right, ron[i]) THEN Raise("KeyError")
    ELSE LET same == {lon[i] : i \in {j \in DOMAIN lon : lon[j] = ron[j]}}
             rcols == SelectSeq(right.cols, LAMBDA c : c \notin same)
             both == (Range(left.cols) \cap Range(rcols))
             lname(c) == IF c \in both THEN c \o "_x" ELSE c
             rname(c) == IF c \in both THEN c \o "_y" ELSE c
             cols == [i \in DOMAIN left.cols |-> lname(left.cols[i])]
                     \o [i \in DOMAIN rcols |-> rname(rcols[i])]
             match(l, r) == \A i \in DOMAIN lon : key_eq(l[lon[i]], r[ron[i]])
             joined(l, r) ==
                 [n \in Range(cols) |->
                    IF \E c \in Range(left.cols) : lname(c) = n
                    THEN l[CHOOSE c \in Range(left.cols) : lname(c) = n]
                    ELSE r[CHOOSE c \in Range(rcols) : rname(c) = n]]
             alone(l) ==
                 [n \in Range(cols) |->
                    IF \E c \in Range(left.cols) : lname(c) = n
                    THEN l[CHOOSE c \in Range(left.cols) : lname(c) = n]
                    ELSE NaN]
             hits(l) == SelectSeq(right.rows, LAMBDA r : match(l, r))
         IN Inferred(Frame(cols, ConcatAll([i \in DOMAIN left.rows |->
                        IF hits(left.rows[i]) = <<>>
                        THEN IF how = "left" THEN <<alone(left.rows[i])>> ELSE <<>>
                        ELSE [j \in DOMAIN hits(left.rows[i]) |->
                                joined(left.rows[i], hits(left.rows[i])[j])]])),
                     {rname(c) : c \in Range(rcols)})

\* The join with how='inner' in place of how='left'.
merge_inner(left, right, lon, ron) == pd_merge(left, right, lon, ron, "inner")

\* pd.merge(summary, detail, ..., how='left')
merge(left, right, lon, ron) == pd_merge(left, right, lon, ron, "left")

(***************************************************************************)
(* Geometry resolver.  A geometry object is [k |-> "geom", a |-> attrs],   *)
(* attrs the record of the attributes it exposes; a centre is a            *)
(* MultiPolygon (with a centroid), a Point, or something else.             *)
(***************************************************************************)
hasattr(o, n) == o.k = "geom" /\ n \in DOMAIN o.a

LatLon(lat, lon) == D([latitude |-> lat, longitude |-> lon])

\* A resolver that looks at the top-level x and y before the centre.
get_geom_center_xy_first(geom) ==
    IF hasattr(geom, "y") /\ hasattr(geom, "x") THEN LatLon(geom.a.y, geom.a.x)
    ELSE IF ~hasattr(geom, "center") THEN LatLon(None, None)
    ELSE IF geom.a.center.k = "MultiPolygon"
    THEN LatLon(geom.a.center.centroid.y, geom.a.center.centroid.x)
    ELSE IF geom.a.center.k = "Point" THEN LatLon(geom.a.center.y, geom.a.center.x)
    ELSE Raised("NotImplementedError")

\* A resolver that falls through to x/y, and then to nulls, when the centre
\* is of a kind it does not know.
get_geom_center_lenient(geom) ==
    IF hasattr(geom, "center") /\ geom.a.center.k = "MultiPolygon"
    THEN LatLon(geom.a.center.centroid.y, geom.a.center.centroid.x)
    ELSE IF hasattr(geom, "center") /\ geom.a.center.k = "Point"
    THEN LatLon(geom.a.center.y, geom.a.center.x)
    ELSE IF hasattr(geom, "y") /\ hasattr(geom, "x") THEN LatLon(geom.a.y, geom.a.x)
    ELSE LatLon(None, None)

get_geom_center(geom) ==
    IF hasattr(geom, "center")
    THEN IF geom.a.center.k = "MultiPolygon"
         THEN LatLon(geom.a.center.centroid.y, geom.a.center.centroid.x)
         ELSE IF geom.a.center.k = "Point"
         THEN LatLon(geom.a.center.y, geom.a.center.x)
         ELSE Raised("NotImplementedError")
    ELSE IF hasattr(geom, "y") /\ hasattr(geom, "x")
    THEN LatLon(geom.a.y, geom.a.x)
    ELSE LatLon(None, None)

\* A resolution that leaves the centre of a record empty when it cannot be
\* resolved.
resolve_geometry_skipping_errors(df) ==
    expand(map_skipping_errors(df, "geometry", get_geom_center), "geometry")

\* df['geometry'] = df['geometry'].apply(get_geom_center), then the
\* latitude and longitude columns in place of the geometry column.
resolve_geometry(df) == expand(map(df, "geometry", get_geom_center), "geometry")


RECURSIVE assign_all(_, _, _)
assign_all(df, cs, v) == IF cs = <<>> THEN df ELSE assign_all(assign(df, Head(cs), v), Tail(cs), v)

\* df[c] = df[c].astype('Int64').apply(str), for each c of cs in turn.
RECURSIVE Int64_strs(_, _)
Int64_strs(df, cs) == IF cs = <<>> THEN df ELSE Int64_strs(map(df, Head(cs), Int64_str), Tail(cs))

RECURSIVE round3s(_, _)
round3s(df, cs) == IF cs = <<>> THEN df ELSE round3s(map(df, Head(cs), round3), Tail(cs))

\* The block with any() for all(): the field counts as missing from the
\* batch as soon as one row lacks it.
lift_if_none_missing(df, c, m, synth) ==
    IF df.err # "" THEN df
    ELSE IF ~has(df, c) THEN Raise("KeyError")
    ELSE IF \A i \in DOMAIN df.rows : ~isna(df.rows[i][c]) THEN rename(expand(df, c), m)
    ELSE assign_all(drop(df, c), synth, NA)

\* The block the formatters repeat for an optional nested field c:
\*   if not df[c].isna().values.all(): expand c and rename by m
\*   else: drop c and set each column of synth to pd.NA
lift(df, c, m, synth) ==
    IF df.err # "" THEN df
    ELSE IF ~has(df, c) THEN Raise("KeyError")
    ELSE IF ~all_na(df, c) THEN rename(expand(df, c), m)
    ELSE assign_all(drop(df, c), synth, NA)

NoRename == [c \in {} |-> ""]

(***************************************************************************)
(* Shape formatters.  data is the list of record objects, each the         *)
(* function vars(o) from attribute names to values; the *Attrs sequences   *)
(* are the attributes of the record classes.  For a composite formatter    *)
(* data is the pair of the two lists, <<L(summary), L(detail)>>.           *)
(***************************************************************************)
AdaptationDetailAttrs ==
    <<"adaptationId", "valid_id", "name", "type", "scenario", "conveyance", "returnPeriod", "geometry">>

format_adaptation_detail(data) ==
    LET df == explode(explode(json_normalize(data, AdaptationDetailAttrs), "type"), "scenario")
    IN select(resolve_geometry(Int64_strs(df, <<"adaptationId", "returnPeriod">>)),
              <<"adaptationId", "valid_id", "name", "type", "scenario", "conveyance", "returnPeriod",
                "latitude", "longitude">>)

AdaptationSummaryAttrs == <<"fsid", "valid_id", "adaptation", "properties">>

format_adaptation_summary(data) ==
    LET df == explode(json_normalize(data, AdaptationSummaryAttrs), "adaptation")
    IN select(Int64_strs(map(df, "fsid", apply_str), <<"adaptation">>),
              <<"fsid", "valid_id", "adaptation", "properties">>)

\* format_adaptation_summary_detail with the join keeping matched summary
\* rows only.
format_adaptation_summary_detail_matched_only(data) ==
    LET summary == format_adaptation_summary(data[1].l)
        detail == format_adaptation_detail(data[2].l)
    IN drop(merge_inner(summary, detail, <<"adaptation", "valid_id">>, <<"adaptationId", "valid_id">>),
            "adaptationId")

format_adaptation_summary_detail(data) ==
    LET summary == format_adaptation_summary(data[1].l)
        detail == format_adaptation_detail(data[2].l)
    IN drop(merge(summary, detail, <<"adaptation", "valid_id">>, <<"adaptationId", "valid_id">>),
            "adaptationId")

EnvironmentalPrecipitationAttrs == <<"fsid", "valid_id", "projected">>

format_environmental_precipitation(data) ==
    LET df == explode(DataFrame(data, EnvironmentalPrecipitationAttrs), "projected")
    IN select(IF df.err # "" THEN df
              ELSE IF ~all_na(df, "projected")
              THEN round3s(Int64_strs(map(expand(expand(df, "projected"), "data"), "fsid", apply_str),
                                      <<"year">>),
                           <<"low", "mid", "high">>)
              ELSE assign_all(drop(map(df, "fsid", apply_str), "projected"),
                              <<"year", "low", "mid", "high">>, NA),
              <<"fsid", "valid_id", "year", "low", "mid", "high">>)

HistoricEventAttrs ==
    <<"eventId", "valid_id", "name", "type", "month", "year", "returnPeriod", "properties", "geometry">>

format_historic_event(data) ==
    LET df == lift(DataFrame(data, HistoricEventAttrs), "properties",
                   [total |-> "propertiesTotal", affected |-> "propertiesAffected"],
                   <<"propertiesTotal", "propertiesAffected">>)
    IN select(resolve_geometry(Int64_strs(df, <<"eventId", "month", "year", "returnPeriod",
                                                "propertiesTotal", "propertiesAffected">>)),
              <<"eventId", "valid_id", "name", "month", "year", "returnPeriod", "type",
                "propertiesTotal", "propertiesAffected", "latitude", "longitude">>)

HistoricSummaryAttrs == <<"fsid", "valid_id", "historic">>

format_historic_summary_property(data) ==
    LET df == lift(explode(DataFrame(data, HistoricSummaryAttrs), "historic"), "historic",
                   NoRename, <<"eventId", "name", "type", "depth">>)
    IN select(Int64_strs(map(df, "fsid", apply_str), <<"eventId", "depth">>),
              <<"fsid", "valid_id", "eventId", "name", "type", "depth">>)

format_historic_summary(data) ==
    LET df0 == explode(json_normalize(data, HistoricSummaryAttrs), "historic")
        df == IF df0.err # "" THEN df0
              ELSE IF ~all_na(df0, "historic")
              THEN expand(explode(expand(df0, "historic"), "data"), "data")
              ELSE assign_all(drop(map(df0, "fsid", apply_str), "historic"),
                              <<"eventId", "name", "type", "bin", "count">>, NA)
    IN select(Int64_strs(map(Int64_strs(map(df, "fsid", apply_str), <<"eventId">>), "type", apply_str),
                         <<"bin", "count">>),
              <<"fsid", "valid_id", "eventId", "name", "type", "bin", "count">>)

format_historic_summary_event_property(data) ==
    LET summary == format_historic_summary_property(data[1].l)
        event == format_historic_event(data[2].l)
    IN merge(summary, event, <<"eventId", "valid_id">>, <<"eventId", "valid_id">>)

\* The join of format_historic_summary_event on eventId alone: valid_id,
\* in both tables and no longer a key, comes out as valid_id_x and
\* valid_id_y.
format_historic_summary_event_on_event_id(data) ==
    LET summary == format_historic_summary(data[1].l)
        event == format_historic_event(data[2].l)
    IN merge(summary, event, <<"eventId">>, <<"eventId">>)

format_historic_summary_event(data) ==
    LET summary == format_historic_summary(data[1].l)
        event == format_historic_event(data[2].l)
    IN merge(summary, event, <<"eventId", "valid_id">>, <<"eventId", "valid_id">>)


\* The cast without the padding.
state_fips_unpadded(v) == Int64_str(v)

\* .astype('Int64').apply(str).apply(lambda x: x.zfill(2))
state_fips_str(v) == IF Int64_str(v).k = "raise" THEN Int64_str(v) ELSE S(zfill(Int64_str(v).s, 2))

\* The optional-field block for a parent field: its fsid and name become
\* the columns fips and name.
lift_parent(df, c, fips, name) == lift(df, c, [fsid |-> fips, name |-> name], <<fips, name>>)

Placeholders == [fsid |-> "fsid_placeholder", name |-> "name_placeholder"]

Restore == [fsid_placeholder |-> "fsid", name_placeholder |-> "name"]

LocationDetailPropertyAttrs ==
    <<"fsid", "valid_id", "streetNumber", "route", "city", "zipCode", "neighborhood", "tract",
      "county", "cd", "state", "footprintId", "elevation", "fema", "geometry">>

format_location_detail_property(data) ==
    LET df0 == rename(explode(DataFrame(data, LocationDetailPropertyAttrs), "neighborhood"),
                      [fsid |-> "fsid_placeholder"])
        df1 == lift_parent(df0, "city", "city_fips", "city_name")
        df2 == lift_parent(df1, "neighborhood", "neighborhood_fips", "neighborhood_name")
        df3 == lift_parent(df2, "tract", "tract_fips", "tract_name")
        df4 == lift_parent(df3, "county", "county_fips", "county_name")
        df5 == lift_parent(df4, "cd", "cd_fips", "cd_name")
        df6 == lift_parent(df5, "state", "state_fips", "state_name")
        df7 == map(rename(df6, [fsid_placeholder |-> "fsid"]), "fsid", apply_str)
        df8 == Int64_strs(df7, <<"city_fips", "neighborhood_fips", "tract_fips", "county_fips", "cd_fips">>)
        df9 == map(Int64_strs(map(df8, "state_fips", state_fips_str), <<"footprintId">>),
                   "elevation", apply_str)
    IN select(resolve_geometry(df9),
              <<"fsid", "valid_id", "streetNumber", "route", "city_fips", "city_name", "zipCode",
                "neighborhood_fips", "neighborhood_name", "tract_fips", "county_fips", "county_name",
                "cd_fips", "cd_name", "state_fips", "state_name", "footprintId", "elevation", "fema",
                "latitude", "longitude">>)

LocationDetailNeighborhoodAttrs ==
    <<"fsid", "valid_id", "name", "city", "county", "subtype", "state", "geometry">>

format_location_detail_neighborhood(data) ==
    LET df0 == rename(explode(explode(DataFrame(data, LocationDetailNeighborhoodAttrs), "city"), "county"),
                      Placeholders)
        df1 == lift_parent(df0, "city", "city_fips", "city_name")
        df2 == lift_parent(df1, "county", "county_fips", "county_name")
        df3 == lift_parent(df2, "state", "state_fips", "state_name")
        df4 == map(rename(df3, Restore), "fsid", apply_str)
        df5 == map(Int64_strs(df4, <<"city_fips", "county_fips">>), "state_fips", state_fips_str)
    IN select(resolve_geometry(df5),
              <<"fsid", "valid_id", "name", "city_fips", "city_name", "county_fips", "county_name",
                "subtype", "state_fips", "state_name", "latitude", "longitude">>)

LocationDetailCityAttrs ==
    <<"fsid", "valid_id", "name", "lsad", "zcta", "county", "neighborhood", "state", "geometry">>

format_location_detail_city(data) ==
    LET df0 == rename(explode(explode(explode(DataFrame(data, LocationDetailCityAttrs), "zcta"),
                                      "county"), "neighborhood"),
                      Placeholders)
        df1 == lift_parent(df0, "zcta", "zipCode", "zcta_name")
        df2 == lift_parent(df1, "county", "county_fips", "county_name")
        df3 == lift_parent(df2, "neighborhood", "neighborhood_fips", "neighborhood_name")
        df4 == lift_parent(df3, "state", "state_fips", "state_name")
        df5 == map(rename(df4, Restore), "fsid", apply_str)
        df6 == map(Int64_strs(df5, <<"zipCode", "county_fips", "neighborhood_fips">>),
                   "state_fips", state_fips_str)
    IN select(resolve_geometry(df6),
              <<"fsid", "valid_id", "name", "lsad", "zipCode", "neighborhood_fips", "neighborhood_name",
                "county_fips", "county_name", "state_fips", "state_name", "latitude", "longitude">>)

LocationDetailZctaAttrs == <<"fsid", "valid_id", "name", "city", "county", "state", "geometry">>

format_location_detail_zcta(data) ==
    LET df0 == rename(explode(explode(DataFrame(data, LocationDetailZctaAttrs), "city"), "county"),
                      Placeholders)
        df1 == lift_parent(df0, "city", "city_fips", "city_name")
        df2 == lift_parent(df1, "county", "county_fips", "county_name")
        df3 == lift_parent(df2, "state", "state_fips", "state_name")
        df4 == map(rename(df3, Restore), "fsid", apply_str)
        df5 == map(Int64_strs(df4, <<"city_fips", "county_fips">>), "state_fips", state_fips_str)
    IN select(resolve_geometry(df5),
              <<"fsid", "valid_id", "name", "city_fips", "city_name", "county_fips", "county_name",
                "state_fips", "state_name", "latitude", "longitude">>)

LocationDetailTractAttrs == <<"fsid", "valid_id", "fips", "county", "state", "geometry">>

format_location_detail_tract(data) ==
    LET df0 == rename(DataFrame(data, LocationDetailTractAttrs), [fsid |-> "fsid_placeholder"])
        df1 == lift_parent(df0, "county", "county_fips", "county_name")
        df2 == lift_parent(df1, "state", "state_fips", "state_name")
        df3 == map(rename(df2, Restore), "fsid", apply_str)
        df4 == map(Int64_strs(df3, <<"county_fips">>), "state_fips", state_fips_str)
    IN select(resolve_geometry(df4),
              <<"fsid", "valid_id", "fips", "county_fips", "county_name", "state_fips", "state_name",
                "latitude", "longitude">>)

LocationDetailCountyAttrs ==
    <<"fsid", "valid_id", "city", "zcta", "fips", "isCoastal", "cd", "state", "geometry">>

format_location_detail_county(data) ==
    LET df0 == rename(explode(explode(explode(DataFrame(data, LocationDetailCountyAttrs), "city"),
                                      "zcta"), "cd"),
                      [fsid |-> "fsid_placeholder"])
        df1 == lift_parent(df0, "city", "city_fips", "city_name")
        df2 == lift_parent(df1, "zcta", "zipCode", "zcta_name")
        df3 == lift_parent(df2, "cd", "cd_fips", "cd_name")
        df4 == lift_parent(df3, "state", "state_fips", "state_name")
        df5 == map(rename(df4, [fsid_placeholder |-> "fsid"]), "fsid", apply_str)
        df6 == map(Int64_strs(df5, <<"city_fips", "zipCode", "cd_fips">>), "state_fips", state_fips_str)
    IN select(resolve_geometry(df6),
              <<"fsid", "valid_id", "city_fips", "city_name", "zipCode", "fips", "isCoastal", "cd_fips",
                "cd_name", "state_fips", "state_name", "latitude", "longitude">>)

LocationDetailCdAttrs == <<"fsid", "valid_id", "district", "county", "state", "geometry">>

format_location_detail_cd(data) ==
    LET df0 == rename(explode(DataFrame(data, LocationDetailCdAttrs), "county"),
                      [fsid |-> "fsid_placeholder"])
        df1 == lift_parent(df0, "county", "county_fips", "county_name")
        df2 == lift_parent(df1, "state", "state_fips", "state_name")
        df3 == map(rename(df2, [fsid_placeholder |-> "fsid"]), "fsid", apply_str)
        df4 == map(Int64_strs(df3, <<"county_fips">>), "state_fips", state_fips_str)
    IN select(resolve_geometry(df4),
              <<"fsid", "valid_id", "district", "county_fips", "county_name", "state_fips", "state_name",
                "latitude", "longitude">>)

LocationDetailStateAttrs == <<"fsid", "valid_id", "name", "fips", "geometry">>

format_location_detail_state(data) ==
    select(resolve_geometry(map(DataFrame(data, LocationDetailStateAttrs), "fsid", apply_str)),
           <<"fsid", "valid_id", "name", "fips", "latitude", "longitude">>)

LocationSummaryPropertyAttrs ==
    <<"fsid", "valid_id", "floodFactor", "riskDirection", "environmentalRisk", "historic", "adaptation">>

format_location_summary_property(data) ==
    select(Int64_strs(map(DataFrame(data, LocationSummaryPropertyAttrs), "fsid", apply_str),
                      <<"riskDirection", "environmentalRisk", "historic", "adaptation", "floodFactor">>),
           <<"fsid", "valid_id", "floodFactor", "riskDirection", "environmentalRisk", "historic",
             "adaptation">>)

LocationSummaryAttrs ==
    <<"fsid", "valid_id", "riskDirection", "environmentalRisk", "properties", "historic", "adaptation">>

format_location_summary(data) ==
    LET df == lift(DataFrame(data, LocationSummaryAttrs), "properties",
                   [total |-> "propertiesTotal", atRisk |-> "propertiesAtRisk"],
                   <<"propertiesTotal", "propertiesAtRisk">>)
    IN select(Int64_strs(map(df, "fsid", apply_str),
                         <<"riskDirection", "environmentalRisk", "historic", "adaptation",
                           "propertiesTotal", "propertiesAtRisk">>),
              <<"fsid", "valid_id", "riskDirection", "environmentalRisk", "propertiesTotal",
                "propertiesAtRisk", "historic">>)

FemaNfipAttrs ==
    <<"fsid", "valid_id", "claimCount", "policyCount", "buildingPaid", "contentPaid",
      "buildingCoverage", "contentCoverage", "iccPaid">>

format_fema_nfip(data) ==
    select(Int64_strs(map(DataFrame(data, FemaNfipAttrs), "fsid", apply_str),
                      <<"claimCount", "policyCount", "buildingPaid", "contentPaid", "buildingCoverage",
                        "contentCoverage", "iccPaid">>),
           <<"fsid", "valid_id", "claimCount", "policyCount", "buildingPaid", "contentPaid",
             "buildingCoverage", "contentCoverage", "iccPaid">>)


(***************************************************************************)
(* The probability formatters: one frame per record from                   *)
(* pd.json_normalize(..., record_path, meta), or the null row of the       *)
(* except TypeError branch, then pd.concat of the frames.                  *)
(***************************************************************************)
flat_keys(d) ==
    UNION {IF d[a].k = "dict" THEN {a \o "." \o b : b \in DOMAIN d[a].d} ELSE {a} : a \in DOMAIN d}

flat_get(d, c) ==
    IF c \in DOMAIN d THEN (IF d[c].k = "dict" THEN NaN ELSE d[c])
    ELSE IF \E a \in DOMAIN d : d[a].k = "dict" /\ \E b \in DOMAIN d[a].d : c = a \o "." \o b
    THEN LET a == CHOOSE a \in DOMAIN d : d[a].k = "dict" /\ \E b \in DOMAIN d[a].d : c = a \o "." \o b
         IN d[a].d[CHOOSE b \in DOMAIN d[a].d : c = a \o "." \o b]
    ELSE NaN

\* _pull_records: the list under a key, a missing value read as no records.
pull_records(item, key) == IF item.d[key].k = "list" THEN item.d[key].l ELSE <<>>

\* The frame of a list of <<record, meta values>> pairs: the flattened record
\* columns, then the meta columns.
records_frame(pairs, meta) ==
    LET keys == UNION {flat_keys(pairs[n][1].d) : n \in DOMAIN pairs}
        cols == SetToSeq(keys) \o meta
    IN Inferred(Frame(cols, [n \in DOMAIN pairs |->
                  [c \in Range(cols) |-> IF c \in Range(meta) THEN pairs[n][2][c]
                                         ELSE flat_get(pairs[n][1].d, c)]]),
                Range(cols))

\* What json_normalize raises for element e of its list: TypeError for an
\* element that is not a dict or whose 'data' is neither a list nor null,
\* KeyError for one without 'data' or without the meta key 'year'.
element_error(e) ==
    IF e.k # "dict" THEN "TypeError"
    ELSE IF "data" \notin DOMAIN e.d THEN "KeyError"
    ELSE IF e.d.data.k # "list" /\ ~isna(e.d.data) THEN "TypeError"
    ELSE IF "year" \notin DOMAIN e.d THEN "KeyError"
    ELSE ""

\* A json_normalize that leaves out the elements it cannot read.
normalize_data_lenient(lst) ==
    IF lst.k # "list" \/ \E i \in DOMAIN lst.l : element_error(lst.l[i]) # ""
    THEN Raise("TypeError")
    ELSE IF lst.l = <<>> THEN Frame(<<>>, <<>>)
    ELSE records_frame(ConcatAll([i \in DOMAIN lst.l |->
                [j \in DOMAIN pull_records(lst.l[i], "data") |->
                    <<pull_records(lst.l[i], "data")[j], [year |-> lst.l[i].d.year]>>]]),
            <<"year">>)

\* pd.json_normalize(lst, record_path='data', meta=['year']): TypeError for
\* a value that cannot be iterated, else the error of the first element
\* that has one.
normalize_data(lst) ==
    IF lst.k # "list" THEN Raise("TypeError")
    ELSE IF lst.l = <<>> THEN Frame(<<>>, <<>>)
    ELSE IF \E i \in DOMAIN lst.l : element_error(lst.l[i]) # ""
    THEN Raise(element_error(lst.l[CHOOSE i \in DOMAIN lst.l :
                    /\ element_error(lst.l[i]) # ""
                    /\ \A j \in 1..(i - 1) : element_error(lst.l[j]) = ""]))
    ELSE records_frame(ConcatAll([i \in DOMAIN lst.l |->
                [j \in DOMAIN pull_records(lst.l[i], "data") |->
                    <<pull_records(lst.l[i], "data")[j], [year |-> lst.l[i].d.year]>>]]),
            <<"year">>)

\* pd.json_normalize(lst, record_path=['data', 'data'], meta=['year', ['data', 'returnPeriod']])
normalize_data_data(lst) ==
    IF lst.k # "list" THEN Raise("TypeError")
    ELSE IF lst.l = <<>> THEN Frame(<<>>, <<>>)
    ELSE IF \E i \in DOMAIN lst.l : lst.l[i].d.data.k # "list" THEN Raise("TypeError")
    ELSE records_frame(ConcatAll([i \in DOMAIN lst.l |->
                ConcatAll([m \in DOMAIN lst.l[i].d.data.l |->
                    [j \in DOMAIN pull_records(lst.l[i].d.data.l[m], "data") |->
                        <<pull_records(lst.l[i].d.data.l[m], "data")[j],
                          [year |-> lst.l[i].d.year]
                            @@ ("data.returnPeriod" :> lst.l[i].d.data.l[m].d.returnPeriod)>>]])]),
            <<"year", "data.returnPeriod">>)

\* pd.json_normalize(locs, ['data', 'count'], ['location', ['location', 'fsid'],
\*                   ['location', 'name'], ['location', 'subtype']], errors='ignore')
normalize_data_count(locs) ==
    IF \E i \in DOMAIN locs : locs[i].d.data.k # "list" THEN Raise("TypeError")
    ELSE records_frame(ConcatAll([i \in DOMAIN locs |->
                ConcatAll([m \in DOMAIN locs[i].d.data.l |->
                    LET e == locs[i].d.data.l[m].d
                        at(key) == IF key \in DOMAIN e THEN e[key] ELSE NaN
                    IN [j \in DOMAIN pull_records(locs[i].d.data.l[m], "count") |->
                        <<pull_records(locs[i].d.data.l[m], "count")[j],
                          [location |-> locs[i].d.location]
                            @@ ("location.fsid" :> at("fsid")) @@ ("location.name" :> at("name"))
                            @@ ("location.subtype" :> at("subtype"))>>]])]),
            <<"location", "location.fsid", "location.name", "location.subtype">>)

\* The frame of one record: the normalized frame with fsid and valid_id set,
\* or, on TypeError, the row of str(fsid), valid_id and pd.NA in nulls.
record_frame(d, normalized, nulls) ==
    IF normalized.err = "TypeError"
    THEN assign_all(Frame(<<"fsid", "valid_id">>, <<[fsid |-> S(str(d.fsid)), valid_id |-> d.valid_id]>>),
                    nulls, NA)
    ELSE assign(assign(normalized, "fsid", d.fsid), "valid_id", d.valid_id)

\* pd.concat(frames, axis=0).reset_index(drop=True): the union of the
\* columns, a column a frame lacks NaN in its rows; ValueError without frames.
RECURSIVE union_cols(_)
union_cols(frames) ==
    IF frames = <<>> THEN <<>>
    ELSE LET rest == union_cols(SubSeq(frames, 1, Len(frames) - 1))
             last == frames[Len(frames)].cols
         IN rest \o SelectSeq(last, LAMBDA c : c \notin Range(rest))

concat(frames) ==
    IF frames = <<>> THEN Raise("ValueError")
    ELSE IF \E i \in DOMAIN frames : frames[i].err # ""
    THEN Raise(frames[CHOOSE i \in DOMAIN frames :
                        frames[i].err # "" /\ \A j \in 1..(i - 1) : frames[j].err = ""].err)
    ELSE LET cols == union_cols(frames)
         IN Inferred(Frame(cols, ConcatAll([i \in DOMAIN frames |->
                        [j \in DOMAIN frames[i].rows |->
                            [c \in Range(cols) |-> IF has(frames[i], c) THEN frames[i].rows[j][c]
                                                   ELSE NaN]]])),
                     Range(cols))

DataLowMidHigh == [c \in {"data.low", "data.mid", "data.high"} |->
                     IF c = "data.low" THEN "low" ELSE IF c = "data.mid" THEN "mid" ELSE "high"]

\* "if df['low'] is None: df['low'] = df['low'].round(3)": a column is never
\* None, so the rounding is not applied.
round_if_none(df, c) == IF df.err # "" THEN df ELSE IF ~has(df, c) THEN Raise("KeyError") ELSE df

format_probability_chance(data) ==
    LET frames == [i \in DOMAIN data |->
                     record_frame(data[i], normalize_data(data[i].chance),
                                  <<"year", "threshold", "data.low", "data.mid", "data.high">>)]
        df == Int64_strs(map(rename(concat(frames), DataLowMidHigh), "fsid", apply_str),
                         <<"year", "threshold">>)
    IN select(round_if_none(round_if_none(round_if_none(df, "low"), "mid"), "high"),
              <<"fsid", "valid_id", "year", "threshold", "low", "mid", "high">>)

format_probability_count(data) ==
    LET frames == [i \in DOMAIN data |->
                     record_frame(data[i], normalize_data_data(data[i].count),
                                  <<"year", "data.returnPeriod", "bin", "count.low", "count.mid",
                                    "count.high">>)]
        names == [c \in {"count.low", "count.mid", "count.high", "data.returnPeriod"} |->
                    IF c = "count.low" THEN "low" ELSE IF c = "count.mid" THEN "mid"
                    ELSE IF c = "count.high" THEN "high" ELSE "returnPeriod"]
    IN select(Int64_strs(map(rename(concat(frames), names), "fsid", apply_str),
                         <<"year", "returnPeriod", "bin", "low", "mid", "high">>),
              <<"fsid", "valid_id", "year", "returnPeriod", "bin", "low", "mid", "high">>)

CountSummaryLocations == <<"state", "city", "zcta", "neighborhood", "tract", "county", "cd">>

format_probability_count_summary(data) ==
    LET listed(attr) == [i \in DOMAIN CountSummaryLocations |->
                           D([location |-> S(CountSummaryLocations[i]),
                              data |-> attr[CountSummaryLocations[i]]])]
        frames == [i \in DOMAIN data |->
                     record_frame(data[i], normalize_data_count(listed(data[i])),
                                  <<"location", "location.fsid", "location.name", "location.subtype",
                                    "year", "data.low", "data.mid", "data.high">>)]
        names == [c \in {"location.fsid", "location.name", "location.subtype"} |->
                    IF c = "location.fsid" THEN "location_fips"
                    ELSE IF c = "location.name" THEN "location_name" ELSE "subtype"]
                 @@ DataLowMidHigh
        df0 == rename(concat(frames), names)
        df == IF df0.err = "" /\ ~has(df0, "subtype") THEN assign(df0, "subtype", NA) ELSE df0
    IN select(Int64_strs(map(df, "fsid", apply_str), <<"location_fips", "year", "low", "mid", "high">>),
              <<"fsid", "valid_id", "location", "location_fips", "location_name", "subtype", "year",
                "low", "mid", "high">>)

format_probability_cumulative(data) ==
    LET frames == [i \in DOMAIN data |->
                     record_frame(data[i], normalize_data(data[i].cumulative),
                                  <<"year", "threshold", "data.low", "data.mid", "data.high">>)]
        df == Int64_strs(map(rename(concat(frames), DataLowMidHigh), "fsid", apply_str),
                         <<"year", "threshold">>)
    IN select(round_if_none(round_if_none(round_if_none(df, "low"), "mid"), "high"),
              <<"fsid", "valid_id", "year", "threshold", "low", "mid", "high">>)

format_probability_depth(data) ==
    LET frames == [i \in DOMAIN data |->
                     record_frame(data[i], normalize_data(data[i].depth),
                                  <<"year", "returnPeriod", "data.low", "data.mid", "data.high">>)]
    IN select(Int64_strs(map(rename(concat(frames), DataLowMidHigh), "fsid", apply_str),
                         <<"year", "returnPeriod", "low", "mid", "high">>),
              <<"fsid", "valid_id", "year", "returnPeriod", "low", "mid", "high">>)


(***************************************************************************)
(* Dispatch router: the formatter to_csv selects for (product,             *)
(* product_subtype, location_type), or the exception it raises.            *)
(***************************************************************************)
\* A dispatcher for the historic product with a closed table of location
\* types: what the branch would select if it had no else-fallback.
select_historic_closed(product_subtype, location_type) ==
    IF product_subtype = S("event") THEN "format_historic_event"
    ELSE IF product_subtype \notin {S("summary"), S("summary_event")} THEN "NotImplementedError"
    ELSE IF location_type = S("property")
    THEN IF product_subtype = S("summary") THEN "format_historic_summary_property"
         ELSE "format_historic_summary_event_property"
    ELSE IF location_type \in {S("neighborhood"), S("city"), S("zcta"), S("tract"), S("county"),
                               S("cd"), S("state")}
    THEN IF product_subtype = S("summary") THEN "format_historic_summary"
         ELSE "format_historic_summary_event"
    ELSE "NotImplementedError"

\* elif product == 'historic': ...
select_historic(product_subtype, location_type) ==
    IF product_subtype = S("event") THEN "format_historic_event"
    ELSE IF product_subtype = S("summary")
    THEN IF location_type = S("property") THEN "format_historic_summary_property"
         ELSE "format_historic_summary"
    ELSE IF product_subtype = S("summary_event")
    THEN IF location_type = S("property") THEN "format_historic_summary_event_property"
         ELSE "format_historic_summary_event"
    ELSE "NotImplementedError"

select_formatter(product, product_subtype, location_type) ==
    IF product = S("adaptation")
    THEN IF product_subtype = S("detail") THEN "format_adaptation_detail"
         ELSE IF product_subtype = S("summary") THEN "format_adaptation_summary"
         ELSE IF product_subtype = S("summary_detail") THEN "format_adaptation_summary_detail"
         ELSE "NotImplementedError"
    ELSE IF product = S("probability")
    THEN IF product_subtype = S("chance") THEN "format_probability_chance"
         ELSE IF product_subtype = S("count") THEN "format_probability_count"
         ELSE IF product_subtype = S("count-summary") THEN "format_probability_count_summary"
         ELSE IF product_subtype = S("cumulative") THEN "format_probability_cumulative"
         ELSE IF product_subtype = S("depth") THEN "format_probability_depth"
         ELSE "NotImplementedError"
    ELSE IF product = S("environmental")
    THEN IF product_subtype = S("precipitation") THEN "format_environmental_precipitation"
         ELSE "NotImplementedError"
    ELSE IF product = S("historic")
    THEN select_historic(product_subtype, location_type)
    ELSE IF product = S("location")
    THEN IF product_subtype = S("detail")
         THEN IF location_type = S("property") THEN "format_location_detail_property"
              ELSE IF location_type = S("neighborhood") THEN "format_location_detail_neighborhood"
              ELSE IF location_type = S("city") THEN "format_location_detail_city"
              ELSE IF location_type = S("zcta") THEN "format_location_detail_zcta"
              ELSE IF location_type = S("tract") THEN "format_location_detail_tract"
              ELSE IF location_type = S("county") THEN "format_location_detail_county"
              ELSE IF location_type = S("cd") THEN "format_location_detail_cd"
              ELSE IF location_type = S("state") THEN "format_location_detail_state"
              ELSE "NotImplementedError"
         ELSE IF product_subtype = S("summary")
         THEN IF location_type = S("property") THEN "format_location_summary_property"
              ELSE "format_location_summary"
         ELSE "NotImplementedError"
    ELSE IF product = S("fema")
    THEN IF product_subtype = S("nfip") THEN "format_fema_nfip"
         ELSE "NotImplementedError"
    ELSE "NotImplementedError"

\* df = <formatter>(data)
run_formatter(formatter, data) ==
    CASE formatter = "format_adaptation_detail" -> format_adaptation_detail(data)
      [] formatter = "format_adaptation_summary" -> format_adaptation_summary(data)
      [] formatter = "format_adaptation_summary_detail" -> format_adaptation_summary_detail(data)
      [] formatter = "format_probability_chance" -> format_probability_chance(data)
      [] formatter = "format_probability_count" -> format_probability_count(data)
      [] formatter = "format_probability_count_summary" -> format_probability_count_summary(data)
      [] formatter = "format_probability_cumulative" -> format_probability_cumulative(data)
      [] formatter = "format_probability_depth" -> format_probability_depth(data)
      [] formatter = "format_environmental_precipitation" -> format_environmental_precipitation(data)
      [] formatter = "format_historic_event" -> format_historic_event(data)
      [] formatter = "format_historic_summary_property" -> format_historic_summary_property(data)
      [] formatter = "format_historic_summary" -> format_historic_summary(data)
      [] formatter = "format_historic_summary_event_property" ->
            format_historic_summary_event_property(data)
      [] formatter = "format_historic_summary_event" -> format_historic_summary_event(data)
      [] formatter = "format_location_detail_property" -> format_location_detail_property(data)
      [] formatter = "format_location_detail_neighborhood" -> format_location_detail_neighborhood(data)
      [] formatter = "format_location_detail_city" -> format_location_detail_city(data)
      [] formatter = "format_location_detail_zcta" -> format_location_detail_zcta(data)
      [] formatter = "format_location_detail_tract" -> format_location_detail_tract(data)
      [] formatter = "format_location_detail_county" -> format_location_detail_county(data)
      [] formatter = "format_location_detail_cd" -> format_location_detail_cd(data)
      [] formatter = "format_location_detail_state" -> format_location_detail_state(data)
      [] formatter = "format_location_summary_property" -> format_location_summary_property(data)
      [] formatter = "format_location_summary" -> format_location_summary(data)
      [] formatter = "format_fema_nfip" -> format_fema_nfip(data)

(***************************************************************************)
(* Table serializer.                                                       *)
(***************************************************************************)
\* An all() that does not skip missing values: None counts as false.
valid_id_all_noskip(df) == \A i \in DOMAIN df.rows : truthy(df.rows[i].valid_id)

\* df['valid_id'].all(): missing values are skipped.
valid_id_all(df) == \A i \in DOMAIN df.rows : isna(df.rows[i].valid_id) \/ truthy(df.rows[i].valid_id)

fillna_true(v) == IF isna(v) THEN B(TRUE) ELSE v

\* if df['valid_id'].all(): drop the column, else fill its nulls with True.
export_valid_id(df) ==
    IF df.err # "" THEN df
    ELSE IF ~has(df, "valid_id") THEN Raise("KeyError")
    ELSE IF valid_id_all(df) THEN drop(df, "valid_id")
    ELSE map(df, "valid_id", fillna_true)

\* fillna(pd.NA).astype(str): the text of a cell in the file.
csv_cell(v) == IF isna(v) THEN NA_STR ELSE str(v)

csv_text(df) ==
    [header |-> df.cols,
     rows |-> [i \in DOMAIN df.rows |-> [c \in Range(df.cols) |-> csv_cell(df.rows[i][c])]]]

\* A join that puts nothing between the parts.
RECURSIVE join_unseparated(_)
join_unseparated(parts) ==
    IF Len(parts) = 1 THEN parts[1] ELSE parts[1] \o join_unseparated(Tail(parts))

\* "_".join(parts)
RECURSIVE join(_)
join(parts) == IF Len(parts) = 1 THEN parts[1] ELSE parts[1] \o "_" \o join(Tail(parts))

DefaultOutputDir == "<cwd>/output_data"

(***************************************************************************)
(* to_csv(data, product, product_subtype, location_type, output_dir) at    *)
(* time date on the filesystem f = [dirs, files]: the outcome and the      *)
(* filesystem it leaves.                                                   *)
(***************************************************************************)
to_csv(c, f) ==
    LET named == IF truthy(c.location_type)
                 THEN <<c.product, c.product_subtype, c.location_type>>
                 ELSE <<c.product, c.product_subtype>>
        file_name == join(<<c.date>> \o [i \in DOMAIN named |-> named[i].s]) \o ".csv"
        output_dir == IF truthy(c.output_dir) THEN c.output_dir.s ELSE DefaultOutputDir
        made == [f EXCEPT !.dirs = @ \cup {output_dir}]
        formatter == select_formatter(c.product, c.product_subtype, c.location_type)
        \* The export step on the formatter's table df, out the table to write.
        export(df, out) ==
            IF out.err # ""
            THEN [ret |-> [raised |-> out.err, formatter |-> formatter, df |-> df, path |-> ""],
                  fs |-> made]
            ELSE [ret |-> [raised |-> "", formatter |-> formatter, df |-> df,
                           path |-> output_dir \o "/" \o file_name],
                  fs |-> [made EXCEPT !.files = @ \cup {[path |-> output_dir \o "/" \o file_name,
                                                         text |-> csv_text(out)]}]]
        formatted(df) == export(df, export_valid_id(df))
    IN IF \E i \in DOMAIN named : named[i].k # "str"
       THEN [ret |-> [raised |-> "TypeError", formatter |-> "", df |-> None, path |-> ""], fs |-> f]
       ELSE IF formatter = "NotImplementedError"
       THEN [ret |-> [raised |-> "NotImplementedError", formatter |-> "", df |-> None, path |-> ""],
             fs |-> made]
       ELSE formatted(run_formatter(formatter, c.data))

Pending == [k |-> "pending"]

\* A call made directly, outside the methods of Historic.
Direct == pc = "" /\ api = <<>> /\ frame = <<>>

ToCsv ==
    /\ call.fn = "to_csv"
    /\ ret = Pending
    /\ LET returns(out) == ret' = out.ret /\ fs' = out.fs
       IN returns(to_csv(call, fs))
    /\ UNCHANGED <<call, pc, api, frame>>

GetGeomCenter ==
    /\ call.fn = "get_geom_center"
    /\ ret = Pending
    /\ ret' = get_geom_center(call.geom)
    /\ UNCHANGED <<call, fs, pc, api, frame>>

(***************************************************************************)
(* Inputs.  Bounds of the model and the record objects the calls are       *)
(* drawn from.                                                             *)
(***************************************************************************)
MaxBatch == 2
MaxList == 2
MaxCoord == 1

Valid == {B(TRUE), B(FALSE), None}

\* The choices for the records of a batch of least..MaxBatch records.
BatchChoices(least, Choices) == UNION {[1..n -> Choices] : n \in least..MaxBatch}

\* len(v) of a list, 0 of anything else.
ListLen(v) == IF v.k = "list" THEN Len(v.l) ELSE 0

\* None, and the lists of the first 0..MaxList elements of Elem(1), Elem(2), ...
Lists(Elem(_)) == {None} \cup {L([j \in 1..n |-> Elem(j)]) : n \in 0..MaxList}

Coords == {float(n) : n \in 0..MaxCoord}

Centers ==
    {[k |-> "MultiPolygon", centroid |-> [x |-> x, y |-> y]] : x \in Coords, y \in Coords}
    \cup {[k |-> "Point", x |-> x, y |-> y] : x \in Coords, y \in Coords}
    \cup {[k |-> "Polygon"], None}

Geoms ==
    {None} \cup
    {[k |-> "geom", a |-> c @@ x @@ y] :
        c \in {<<>>} \cup {("center" :> v) : v \in Centers},
        x \in {<<>>} \cup {("x" :> v) : v \in Coords},
        y \in {<<>>} \cup {("y" :> v) : v \in Coords}}

PointGeom == [k |-> "geom", a |-> [center |-> [k |-> "Point", x |-> F(12500), y |-> F(407000)]]]
AreaGeom == [k |-> "geom", a |-> [center |-> [k |-> "MultiPolygon",
                                                centroid |-> [x |-> F(731234), y |-> F(415678)]]]]

Place(n) == D([fsid |-> I(n), name |-> S("place" \o ToString(n))])

LowMidHigh == D([low |-> F(12344), mid |-> F(23456), high |-> F(34567)])
Counts == D([low |-> I(1), mid |-> I(2), high |-> I(3)])

Projected(j) == D([year |-> I(2020 + j), data |-> LowMidHigh])
PropertyEvent(j) == D([eventId |-> I(j), name |-> S("event" \o ToString(j)), type |-> S("surge"),
                       depth |-> I(10 * j)])
AreaEvent(j) == D([eventId |-> I(j), name |-> S("event" \o ToString(j)), type |-> S("surge"),
                   data |-> L(<<D([bin |-> I(1), count |-> I(j)]), D([bin |-> I(2), count |-> I(0)])>>)])
Chance(j) == D([year |-> I(2020 + j),
                data |-> L(<<D([threshold |-> I(0), data |-> LowMidHigh])>>)])
Depth(j) == D([year |-> I(2020 + j),
               data |-> L(<<D([returnPeriod |-> I(100), data |-> Counts])>>)])
Count(j) == D([year |-> I(2020 + j),
               data |-> L(<<D([returnPeriod |-> I(100),
                               data |-> L(<<D([bin |-> I(j), count |-> Counts])>>)])>>)])
CountLocation(j) == D([fsid |-> I(j), name |-> S("place" \o ToString(j)),
                       count |-> L(<<D([year |-> I(2020), data |-> Counts])>>)])

AdaptationDetail(id, type, scenario, v, geom) ==
    [adaptationId |-> id, valid_id |-> v, name |-> S("levee"), type |-> type, scenario |-> scenario,
     conveyance |-> B(FALSE), returnPeriod |-> I(100), geometry |-> geom]

AdaptationSummary(i, adaptation, v) ==
    [fsid |-> I(i), valid_id |-> v, adaptation |-> adaptation, properties |-> I(3)]

HistoricEvent(id, v, properties, geom) ==
    [eventId |-> id, valid_id |-> v, name |-> S("flood"), type |-> S("surge"), month |-> I(9),
     year |-> I(2017), returnPeriod |-> I(50), properties |-> properties, geometry |-> geom]

\* HistoricEvent({"eventId": None}): every attribute missing.
NullEvent == [a \in Range(HistoricEventAttrs) |-> None]

HistoricSummary(i, historic, v) == [fsid |-> I(i), valid_id |-> v, historic |-> historic]

\* A record of the class the formatter reads, the i-th of its batch, with
\* every optional nested field populated (level 2) or missing: None (level
\* 0), and for a list-valued field the empty list (level 1).
Sample(formatter, i, level, v) ==
    LET opt(x) == IF level = 2 THEN x ELSE None
        lst(x) == IF level = 2 THEN L(<<x>>) ELSE IF level = 1 THEN L(<<>>) ELSE None
        geom == IF level = 2 THEN PointGeom ELSE None
        area == IF level = 2 THEN AreaGeom ELSE None
    IN CASE formatter = "format_adaptation_detail" ->
              AdaptationDetail(I(i), lst(S("seawall")), lst(S("rcp45")), v, area)
         [] formatter = "format_adaptation_summary" -> AdaptationSummary(i, lst(I(1)), v)
         [] formatter = "format_probability_chance" ->
              [fsid |-> I(i), valid_id |-> v, chance |-> lst(Chance(1))]
         [] formatter = "format_probability_count" ->
              [fsid |-> I(i), valid_id |-> v, count |-> lst(Count(1))]
         [] formatter = "format_probability_count_summary" ->
              [fsid |-> I(i), valid_id |-> v, state |-> opt(L(<<CountLocation(6)>>)),
               city |-> opt(L(<<CountLocation(10)>>)), zcta |-> opt(L(<<CountLocation(20)>>)),
               neighborhood |-> opt(L(<<CountLocation(30)>>)), tract |-> opt(L(<<CountLocation(40)>>)),
               county |-> opt(L(<<CountLocation(50)>>)), cd |-> opt(L(<<CountLocation(60)>>))]
         [] formatter = "format_probability_cumulative" ->
              [fsid |-> I(i), valid_id |-> v, cumulative |-> lst(Chance(1))]
         [] formatter = "format_probability_depth" ->
              [fsid |-> I(i), valid_id |-> v, depth |-> lst(Depth(1))]
         [] formatter = "format_environmental_precipitation" ->
              [fsid |-> I(i), valid_id |-> v, projected |-> lst(Projected(1))]
         [] formatter = "format_historic_event" ->
              HistoricEvent(I(i), v, opt(D([total |-> I(100), affected |-> I(7)])), area)
         [] formatter = "format_historic_summary_property" -> HistoricSummary(i, lst(PropertyEvent(1)), v)
         [] formatter = "format_historic_summary" -> HistoricSummary(i, lst(AreaEvent(1)), v)
         [] formatter = "format_location_detail_property" ->
              [fsid |-> I(i), valid_id |-> v, streetNumber |-> S("247"), route |-> S("WATER ST"),
               city |-> opt(Place(10)), zipCode |-> opt(I(11201)), neighborhood |-> lst(Place(30)),
               tract |-> opt(Place(40)), county |-> opt(Place(50)), cd |-> opt(Place(60)),
               state |-> opt(Place(6)), footprintId |-> opt(I(77)), elevation |-> opt(I(12)),
               fema |-> opt(S("X")), geometry |-> geom]
         [] formatter = "format_location_detail_neighborhood" ->
              [fsid |-> I(i), valid_id |-> v, name |-> S("Dumbo"), city |-> lst(Place(10)),
               county |-> lst(Place(50)), subtype |-> S("N"), state |-> opt(Place(6)),
               geometry |-> area]
         [] formatter = "format_location_detail_city" ->
              [fsid |-> I(i), valid_id |-> v, name |-> S("Brooklyn"), lsad |-> S("city"),
               zcta |-> lst(Place(20)), county |-> lst(Place(50)), neighborhood |-> lst(Place(30)),
               state |-> opt(Place(6)), geometry |-> area]
         [] formatter = "format_location_detail_zcta" ->
              [fsid |-> I(i), valid_id |-> v, name |-> S("11201"), city |-> lst(Place(10)),
               county |-> lst(Place(50)), state |-> opt(Place(6)), geometry |-> area]
         [] formatter = "format_location_detail_tract" ->
              [fsid |-> I(i), valid_id |-> v, fips |-> S("36047"), county |-> opt(Place(50)),
               state |-> opt(Place(6)), geometry |-> area]
         [] formatter = "format_location_detail_county" ->
              [fsid |-> I(i), valid_id |-> v, city |-> lst(Place(10)), zcta |-> lst(Place(20)),
               fips |-> S("36047"), isCoastal |-> B(TRUE), cd |-> lst(Place(60)),
               state |-> opt(Place(6)), geometry |-> area]
         [] formatter = "format_location_detail_cd" ->
              [fsid |-> I(i), valid_id |-> v, district |-> S("07"), county |-> lst(Place(50)),
               state |-> opt(Place(6)), geometry |-> area]
         [] formatter = "format_location_detail_state" ->
              [fsid |-> I(i), valid_id |-> v, name |-> S("California"), fips |-> S("06"),
               geometry |-> area]
         [] formatter = "format_location_summary_property" ->
              [fsid |-> I(i), valid_id |-> v, floodFactor |-> opt(I(4)), riskDirection |-> opt(I(1)),
               environmentalRisk |-> opt(I(2)), historic |-> opt(I(1)), adaptation |-> opt(I(0))]
         [] formatter = "format_location_summary" ->
              [fsid |-> I(i), valid_id |-> v, riskDirection |-> opt(I(1)),
               environmentalRisk |-> opt(I(2)),
               properties |-> opt(D([total |-> I(100), atRisk |-> I(7)])),
               historic |-> opt(I(1)), adaptation |-> opt(I(0))]
         [] formatter = "format_fema_nfip" ->
              [fsid |-> I(i), valid_id |-> v, claimCount |-> opt(I(5)), policyCount |-> opt(I(6)),
               buildingPaid |-> opt(I(7)), contentPaid |-> opt(I(8)), buildingCoverage |-> opt(I(9)),
               contentCoverage |-> opt(I(10)), iccPaid |-> opt(I(11))]

Levels == {0, 1, 2}

Formatters ==
    {"format_adaptation_detail", "format_adaptation_summary", "format_adaptation_summary_detail",
     "format_probability_chance", "format_probability_count", "format_probability_count_summary",
     "format_probability_cumulative", "format_probability_depth",
     "format_environmental_precipitation", "format_historic_event",
     "format_historic_summary_property", "format_historic_summary",
     "format_historic_summary_event_property", "format_historic_summary_event",
     "format_location_detail_property", "format_location_detail_neighborhood",
     "format_location_detail_city", "format_location_detail_zcta", "format_location_detail_tract",
     "format_location_detail_county", "format_location_detail_cd", "format_location_detail_state",
     "format_location_summary_property", "format_location_summary", "format_fema_nfip"}

\* The formatter of the summary side of a composite formatter ("" if single).
summary_of(formatter) ==
    CASE formatter = "format_adaptation_summary_detail" -> "format_adaptation_summary"
      [] formatter = "format_historic_summary_event_property" -> "format_historic_summary_property"
      [] formatter = "format_historic_summary_event" -> "format_historic_summary"
      [] OTHER -> ""

\* A detail side for the samples of a composite formatter: the record the
\* populated summary sample refers to.
detail_sample(formatter) ==
    IF formatter = "format_adaptation_summary_detail"
    THEN <<Sample("format_adaptation_detail", 1, 2, B(TRUE))>>
    ELSE <<Sample("format_historic_event", 1, 2, B(TRUE))>>

\* The data argument made of the records Sample(formatter, i, level, valid_id).
sample_data(formatter, choices) ==
    IF summary_of(formatter) = ""
    THEN [i \in DOMAIN choices |-> Sample(formatter, i, choices[i][1], choices[i][2])]
    ELSE <<L([i \in DOMAIN choices |-> Sample(summary_of(formatter), i, choices[i][1], choices[i][2])]),
           L(detail_sample(formatter))>>

Products == {S("adaptation"), S("probability"), S("environmental"), S("historic"), S("location"),
             S("fema"), S("other")}

Subtypes == {S("detail"), S("summary"), S("summary_detail"), S("chance"), S("count"),
             S("count-summary"), S("cumulative"), S("depth"), S("precipitation"), S("event"),
             S("summary_event"), S("nfip"), S("other"), None}

LocationTypes == {S("property"), S("neighborhood"), S("city"), S("zcta"), S("tract"), S("county"),
                  S("cd"), S("state")}

Today == "2020_07_01_12_00_00"

Call(data, product, product_subtype, location_type, output_dir) ==
    [fn |-> "to_csv", data |-> data, product |-> product, product_subtype |-> product_subtype,
     location_type |-> location_type, output_dir |-> output_dir, date |-> Today]

\* A triple that makes to_csv select the formatter.
Triples ==
    [formatter \in Formatters |->
        CHOOSE t \in Products \X Subtypes \X (LocationTypes \cup {None}) :
            /\ select_formatter(t[1], t[2], t[3]) = formatter
            /\ t[3] # None <=> \E l \in LocationTypes : select_formatter(t[1], t[2], l) # formatter]

triple_of(formatter) == Triples[formatter]

NoFiles == [dirs |-> {}, files |-> {}]

CallOf(formatter, data) ==
    Call(data, triple_of(formatter)[1], triple_of(formatter)[2], triple_of(formatter)[3], None)

\* Every triple, recognised or not, with two batches per selected formatter;
\* the output directory given or defaulted, present or not.
Init ==
    /\ \E t \in Products \X Subtypes \X (LocationTypes \cup {S("other"), S(""), None}),
          ch \in {<<<<2, B(TRUE)>>>>, <<<<0, B(FALSE)>>, <<2, None>>>>},
          dir \in {None, S(""), S("out")} :
          call = Call(IF select_formatter(t[1], t[2], t[3]) \in Formatters
                      THEN sample_data(select_formatter(t[1], t[2], t[3]), ch)
                      ELSE <<>>,
                      t[1], t[2], t[3], dir)
    /\ ret = Pending
    /\ Direct
    /\ fs \in {NoFiles, [NoFiles EXCEPT !.dirs = {"out", DefaultOutputDir}]}

Next == ToCsv

Spec == Init /\ [][Next]_vars

\* Every formatter, through a triple that selects it, on every batch of
\* 0..MaxBatch sample records.
InitShapes ==
    /\ \E f \in Formatters, ch \in BatchChoices(0, Levels \X Valid) :
          call = CallOf(f, sample_data(f, ch))
    /\ ret = Pending
    /\ Direct
    /\ fs = NoFiles

SpecShapes == InitShapes /\ [][ToCsv]_vars

GeomCalls == {[fn |-> "get_geom_center", geom |-> g] : g \in Geoms}

InitGeom == call \in GeomCalls /\ ret = Pending /\ fs = NoFiles /\ Direct

SpecGeom == InitGeom /\ [][GetGeomCenter]_vars

\* The calls whose records carry list fields of every length 0..MaxList (and
\* None): each exploding formatter on batches of 1..MaxBatch such records,
\* and each composite formatter on such summaries beside a few detail sides.
TypeElem(j) == S("type" \o ToString(j))
ScenarioElem(j) == S("rcp" \o ToString(j))
IdElem(j) == I(j)

NestedRecord(formatter, i, ch) ==
    CASE formatter = "format_adaptation_detail" ->
            AdaptationDetail(I(i), ch[1], ch[2], B(TRUE), AreaGeom)
      [] formatter = "format_adaptation_summary" -> AdaptationSummary(i, ch[1], ch[2])
      [] formatter = "format_environmental_precipitation" ->
            [fsid |-> I(i), valid_id |-> ch[2], projected |-> ch[1]]
      [] formatter \in {"format_historic_summary_property", "format_historic_summary"} ->
            HistoricSummary(i, ch[1], ch[2])

NestedChoices(formatter) ==
    CASE formatter = "format_adaptation_detail" -> Lists(TypeElem) \X Lists(ScenarioElem)
      [] formatter = "format_adaptation_summary" -> Lists(IdElem) \X {B(TRUE), None}
      [] formatter = "format_environmental_precipitation" -> Lists(Projected) \X {B(TRUE), None}
      [] formatter = "format_historic_summary_property" -> Lists(PropertyEvent) \X {B(TRUE), None}
      [] formatter = "format_historic_summary" -> Lists(AreaEvent) \X {B(TRUE), None}

NestedBatch(formatter, ch) == [i \in DOMAIN ch |-> NestedRecord(formatter, i, ch[i])]

NestedBatchChoices(formatter) == BatchChoices(1, NestedChoices(formatter))

\* Detail sides: nothing; adaptation 1 with one type and one scenario; adaptation
\* 1 with every type and scenario beside adaptation 2 without any.
DetailSides ==
    {<<>>,
     <<AdaptationDetail(I(1), L(<<TypeElem(1)>>), L(<<ScenarioElem(1)>>), B(TRUE), AreaGeom)>>,
     <<AdaptationDetail(I(1), L([j \in 1..MaxList |-> TypeElem(j)]),
                        L([j \in 1..MaxList |-> ScenarioElem(j)]), B(TRUE), AreaGeom),
       AdaptationDetail(I(2), None, L(<<>>), B(TRUE), None)>>}

\* Event sides: the record made for "no event"; event 1; events 1 and 2.
EventSides ==
    {<<NullEvent>>,
     <<HistoricEvent(I(1), B(TRUE), D([total |-> I(100), affected |-> I(7)]), AreaGeom)>>,
     <<HistoricEvent(I(1), B(TRUE), D([total |-> I(100), affected |-> I(7)]), AreaGeom),
       HistoricEvent(I(2), B(TRUE), None, None)>>}

InitNested ==
    /\ \/ \E f \in {"format_adaptation_detail", "format_adaptation_summary",
                     "format_environmental_precipitation", "format_historic_summary_property",
                     "format_historic_summary"} :
             \E ch \in NestedBatchChoices(f) : call = CallOf(f, NestedBatch(f, ch))
       \/ \E ch \in NestedBatchChoices("format_adaptation_summary"), d \in DetailSides :
             call = CallOf("format_adaptation_summary_detail",
                           <<L(NestedBatch("format_adaptation_summary", ch)), L(d)>>)
       \/ \E f \in {"format_historic_summary_event_property", "format_historic_summary_event"} :
             \E ch \in NestedBatchChoices(summary_of(f)), d \in EventSides :
                call = CallOf(f, <<L(NestedBatch(summary_of(f), ch)), L(d)>>)
    /\ ret = Pending
    /\ Direct
    /\ fs = NoFiles

SpecNested == InitNested /\ [][ToCsv]_vars

\* The calls of the location-detail formatters that have parent fields, on
\* batches of 1..MaxBatch records.  A record has its state missing or one of
\* two states, and its other parents by level: 0 all missing; 1 lists empty,
\* single parents present; 2 lists of one element, single parents missing;
\* 3 lists of MaxList elements, single parents present.
City(j) == Place(10 + j)
Zcta(j) == Place(20 + j)
Neighborhood(j) == Place(30 + j)
County(j) == Place(50 + j)
Cd(j) == Place(60 + j)

ParentLevels == 0..3

States == {None, Place(6), Place(12)}

LocationRecord(formatter, i, level, state) ==
    LET one(x) == IF level \in {1, 3} THEN x ELSE None
        many(Elem(_)) == CASE level = 0 -> None
                           [] level = 1 -> L(<<>>)
                           [] level = 2 -> L(<<Elem(1)>>)
                           [] level = 3 -> L([j \in 1..MaxList |-> Elem(j)])
    IN CASE formatter = "format_location_detail_property" ->
              [fsid |-> I(i), valid_id |-> B(TRUE), streetNumber |-> S("247"), route |-> S("WATER ST"),
               city |-> one(City(1)), zipCode |-> I(11201), neighborhood |-> many(Neighborhood),
               tract |-> one(Place(40)), county |-> one(County(1)), cd |-> one(Cd(1)),
               state |-> state, footprintId |-> I(77), elevation |-> I(12), fema |-> S("X"),
               geometry |-> PointGeom]
         [] formatter = "format_location_detail_neighborhood" ->
              [fsid |-> I(i), valid_id |-> B(TRUE), name |-> S("Dumbo"), city |-> many(City),
               county |-> many(County), subtype |-> S("N"), state |-> state, geometry |-> AreaGeom]
         [] formatter = "format_location_detail_city" ->
              [fsid |-> I(i), valid_id |-> B(TRUE), name |-> S("Brooklyn"), lsad |-> S("city"),
               zcta |-> many(Zcta), county |-> many(County), neighborhood |-> many(Neighborhood),
               state |-> state, geometry |-> AreaGeom]
         [] formatter = "format_location_detail_zcta" ->
              [fsid |-> I(i), valid_id |-> B(TRUE), name |-> S("11201"), city |-> many(City),
               county |-> many(County), state |-> state, geometry |-> AreaGeom]
         [] formatter = "format_location_detail_tract" ->
              [fsid |-> I(i), valid_id |-> B(TRUE), fips |-> S("36047"), county |-> one(County(1)),
               state |-> state, geometry |-> AreaGeom]
         [] formatter = "format_location_detail_county" ->
              [fsid |-> I(i), valid_id |-> B(TRUE), city |-> many(City), zcta |-> many(Zcta),
               fips |-> S("36047"), isCoastal |-> B(TRUE), cd |-> many(Cd), state |-> state,
               geometry |-> AreaGeom]
         [] formatter = "format_location_detail_cd" ->
              [fsid |-> I(i), valid_id |-> B(TRUE), district |-> S("07"), county |-> many(County),
               state |-> state, geometry |-> AreaGeom]

ParentFormatters ==
    {"format_location_detail_property", "format_location_detail_neighborhood",
     "format_location_detail_city", "format_location_detail_zcta", "format_location_detail_tract",
     "format_location_detail_county", "format_location_detail_cd"}

InitLocation ==
    /\ \E f \in ParentFormatters,
          ch \in BatchChoices(1, ParentLevels \X States) :
          call = CallOf(f, [i \in DOMAIN ch |-> LocationRecord(f, i, ch[i][1], ch[i][2])])
    /\ ret = Pending
    /\ Direct
    /\ fs = NoFiles

SpecLocation == InitLocation /\ [][ToCsv]_vars

\* The calls that end in an error beside calls that do not: every triple on
\* one batch, every formatter on the empty batch, and every formatter that
\* resolves a geometry on batches whose geometries are a point, an area, a
\* centre of another shape or a missing centre.
UnsupportedGeom == [k |-> "geom", a |-> [center |-> [k |-> "Polygon"]]]
NullCenterGeom == [k |-> "geom", a |-> [center |-> None]]

GeomFormatters ==
    {f \in Formatters : summary_of(f) = "" /\ "geometry" \in DOMAIN Sample(f, 1, 2, B(TRUE))}

InitAbort ==
    /\ \/ \E t \in Products \X Subtypes \X (LocationTypes \cup {S("other"), None}) :
             call = Call(IF select_formatter(t[1], t[2], t[3]) \in Formatters
                         THEN sample_data(select_formatter(t[1], t[2], t[3]), <<<<2, B(TRUE)>>>>)
                         ELSE <<>>,
                         t[1], t[2], t[3], None)
       \/ \E f \in Formatters : call = CallOf(f, sample_data(f, <<>>))
       \/ \E f \in GeomFormatters,
             gs \in BatchChoices(1, {PointGeom, AreaGeom, UnsupportedGeom, NullCenterGeom}) :
             call = CallOf(f, [i \in DOMAIN gs |->
                                 [Sample(f, i, 2, B(TRUE)) EXCEPT !.geometry = gs[i]]])
    /\ ret = Pending
    /\ fs = NoFiles
    /\ Direct

SpecAbort == InitAbort /\ [][ToCsv]_vars

(***************************************************************************)
(* Malformed nested fields: a scalar where the list is expected, and a     *)
(* list whose element lacks the inner key the formatter reads.             *)
(***************************************************************************)
MalformedFormatters ==
    {"format_adaptation_detail", "format_adaptation_summary", "format_environmental_precipitation",
     "format_historic_summary_property", "format_historic_summary", "format_probability_chance",
     "format_probability_cumulative", "format_probability_depth"}

list_field(formatter) ==
    CASE formatter = "format_adaptation_detail" -> "type"
      [] formatter = "format_adaptation_summary" -> "adaptation"
      [] formatter = "format_environmental_precipitation" -> "projected"
      [] formatter \in {"format_historic_summary_property", "format_historic_summary"} -> "historic"
      [] formatter = "format_probability_chance" -> "chance"
      [] formatter = "format_probability_cumulative" -> "cumulative"
      [] formatter = "format_probability_depth" -> "depth"

\* The elements of the two adaptation lists are scalars and have no inner key.
MalformedKinds(formatter) ==
    IF formatter \in {"format_adaptation_detail", "format_adaptation_summary"}
    THEN {"ok", "scalar"} ELSE {"ok", "scalar", "nokey"}

NoKeyElement(formatter) ==
    IF formatter \in {"format_historic_summary_property", "format_historic_summary"}
    THEN D([eventId |-> I(1), name |-> S("event1"), type |-> S("surge")])
    ELSE D([year |-> I(2021)])

MalformedRecord(formatter, i, kind) ==
    [Sample(formatter, i, 2, B(TRUE)) EXCEPT
        ![list_field(formatter)] = CASE kind = "ok" -> @
                                     [] kind = "scalar" -> I(5)
                                     [] kind = "nokey" -> L(<<NoKeyElement(formatter)>>)]

InitMalformed ==
    /\ \E f \in MalformedFormatters :
          \E kinds \in BatchChoices(1, MalformedKinds(f)) :
             call = CallOf(f, [i \in DOMAIN kinds |-> MalformedRecord(f, i, kinds[i])])
    /\ ret = Pending
    /\ fs = NoFiles
    /\ Direct

SpecMalformed == InitMalformed /\ [][ToCsv]_vars

(***************************************************************************)
(* firststreet/api/historic.py.  A method call is [fn, fsids,              *)
(* location_type, csv, limit, output_dir, date] (get_event has no          *)
(* location_type); it runs from its first statement (pc = "validate", and  *)
(* pc = "product" in get_event, which validates nothing) to pc = "done",   *)
(* where ret holds what it raised or returned.  call_api is the            *)
(* environment: a request is logged in api and the response is any batch   *)
(* of records of the requested product.  frame.to_csv lists the to_csv     *)
(* calls the method has made.                                              *)
(***************************************************************************)
call_api(fsids, product, product_subtype, location, limit) ==
    [fsids |-> fsids, product |-> product, product_subtype |-> product_subtype,
     location |-> location, limit |-> limit]

\* What a method leaves in ret: the exception it raised, or its return value
\* beside the outcome of its to_csv call (None when it made none).
Raises(e) == [raised |-> e, value |-> None, csv |-> None]
Returns(value, csv) == [raised |-> "", value |-> value, csv |-> csv]

\* The orders of a list that has one of the elements of A twice.
OrdersRepeating(A) ==
    IF A = {} THEN {<<>>} ELSE {s \in [1..(Cardinality(A) + 1) -> A] : Range(s) = A}

\* The orders list(set(...)) may give the elements of A.
Orders(A) == {s \in [1..Cardinality(A) -> A] : Range(s) = A}

\* The responses to a summary request: 0..MaxBatch summaries with every length
\* of historic list, of properties for 'property' and of areas otherwise.
SummaryResponses(location_type) ==
    LET f == IF location_type = S("property") THEN "format_historic_summary_property"
             ELSE "format_historic_summary"
    IN {NestedBatch(f, ch) : ch \in BatchChoices(0, NestedChoices(f))}

\* The responses to an event request: one event per requested id.
EventResponses(fsids) ==
    {[i \in DOMAIN fsids |-> HistoricEvent(fsids[i], v, p, AreaGeom)] :
        v \in {B(TRUE), None}, p \in {D([total |-> I(100), affected |-> I(7)]), None}}

\* The ids with a null id for every summary without events.
event_ids_unguarded(summary) ==
    UNION {IF truthy(summary[i].historic)
           THEN {e.d.eventId : e \in Range(summary[i].historic.l)} ELSE {None} :
              i \in DOMAIN summary}

\* [event.get("eventId") for sum_hist in summary if sum_hist.historic
\*  for event in sum_hist.historic], as the set that set() makes of it.
event_ids(summary) ==
    UNION {{e.d.eventId : e \in Range(summary[i].historic.l)} :
              i \in {i \in DOMAIN summary : truthy(summary[i].historic)}}

\* An export step that writes the file whether or not csv is true.
method_returns_always(value, c) ==
    LET exported(out) ==
            /\ ret' = IF out.ret.raised # "" THEN Raises(out.ret.raised)
                      ELSE Returns(value, out.ret)
            /\ fs' = out.fs
            /\ frame' = [to_csv |-> <<c>>] @@ frame
    IN /\ exported(to_csv(c, fs))
       /\ pc' = "done"
       /\ UNCHANGED <<call, api>>

\* The export step of a method and its return: to_csv runs when csv is true,
\* and what it raises leaves the method.
method_returns(value, c) ==
    LET exported(out) ==
            /\ ret' = IF out.ret.raised # "" THEN Raises(out.ret.raised)
                      ELSE Returns(value, out.ret)
            /\ fs' = out.fs
            /\ frame' = [to_csv |-> <<c>>] @@ frame
    IN /\ IF call.csv THEN exported(to_csv(c, fs))
          ELSE ret' = Returns(value, None) /\ UNCHANGED <<fs, frame>>
       /\ pc' = "done"
       /\ UNCHANGED <<call, api>>

\* A check that tests the type before the truth value.
invalid_location_type_first(fn, location_type) ==
    IF location_type.k # "str" THEN "TypeError"
    ELSE IF ~truthy(location_type) THEN "InvalidArgument"
    ELSE IF fn = "get_events_by_location" /\ location_type = S("property") THEN "InvalidArgument"
    ELSE ""

\* Lines 63-68 and 109-112: the location type is checked before anything else.
invalid_location(fn, location_type) ==
    IF ~truthy(location_type) THEN "InvalidArgument"
    ELSE IF location_type.k # "str" THEN "TypeError"
    ELSE IF fn = "get_events_by_location" /\ location_type = S("property") THEN "InvalidArgument"
    ELSE ""

Validate ==
    /\ call.fn \in {"get_events_by_location", "get_summary"}
    /\ pc = "validate"
    /\ IF invalid_location(call.fn, call.location_type) # ""
       THEN ret' = Raises(invalid_location(call.fn, call.location_type)) /\ pc' = "done"
       ELSE pc' = "summary" /\ UNCHANGED ret
    /\ UNCHANGED <<call, fs, api, frame>>

\* Lines 71-72 and 115-116: the summary request and the objects made of its
\* response.
FetchSummary ==
    /\ call.fn \in {"get_events_by_location", "get_summary"}
    /\ pc = "summary"
    /\ api' = Append(api, call_api(call.fsids, "historic", "summary", call.location_type, call.limit))
    /\ \E api_datas \in SummaryResponses(call.location_type) :
          frame' = [summary |-> api_datas] @@ frame
    /\ pc' = IF call.fn = "get_summary" THEN "csv" ELSE "event"
    /\ UNCHANGED <<call, ret, fs>>

\* Lines 74-83: the ids of the events of the summaries, in any order; the
\* event request when there is one, the record {"eventId": None} when there
\* is none.
FetchEvent ==
    /\ call.fn = "get_events_by_location"
    /\ pc = "event"
    /\ \E fsids \in Orders(event_ids(frame.summary)) :
          IF fsids # <<>>
          THEN /\ api' = Append(api, call_api(fsids, "historic", "event", None, call.limit))
               /\ \E api_datas_event \in EventResponses(fsids) :
                     frame' = [fsids |-> fsids, event |-> api_datas_event] @@ frame
          ELSE /\ frame' = [fsids |-> fsids, event |-> <<NullEvent>>] @@ frame
               /\ UNCHANGED api
    /\ pc' = "csv"
    /\ UNCHANGED <<call, ret, fs>>

\* Lines 85-90.
ReturnEvents ==
    /\ call.fn = "get_events_by_location"
    /\ pc = "csv"
    /\ method_returns(<<frame.summary, frame.event>>,
                      Call(<<L(frame.summary), L(frame.event)>>, S("historic"), S("summary_event"),
                           call.location_type, call.output_dir))

\* Lines 118-123.
ReturnSummary ==
    /\ call.fn = "get_summary"
    /\ pc = "csv"
    /\ method_returns(frame.summary,
                      Call(frame.summary, S("historic"), S("summary"), call.location_type,
                           call.output_dir))

\* Lines 36-37: the event request of get_event and the objects made of its
\* response, one event per requested id.
FetchProduct ==
    /\ call.fn = "get_event"
    /\ pc = "product"
    /\ api' = Append(api, call_api(call.fsids, "historic", "event", None, call.limit))
    /\ \E api_datas \in EventResponses(call.fsids) : frame' = [product |-> api_datas] @@ frame
    /\ pc' = "csv"
    /\ UNCHANGED <<call, ret, fs>>

\* Lines 39-44.
ReturnProduct ==
    /\ call.fn = "get_event"
    /\ pc = "csv"
    /\ method_returns(frame.product,
                      Call(frame.product, S("historic"), S("event"), None, call.output_dir))

LocationArgs == {None, S(""), I(0), I(7), S("property"), S("city"), S("state")}

InitHistoric ==
    /\ \/ \E fn \in {"get_events_by_location", "get_summary"}, location_type \in LocationArgs,
             csv \in BOOLEAN :
             /\ call = [fn |-> fn, fsids |-> <<I(1), I(2)>>, location_type |-> location_type,
                        csv |-> csv, limit |-> I(100), output_dir |-> None, date |-> Today]
             /\ pc = "validate"
       \/ \E n \in 1..MaxBatch, csv \in BOOLEAN, output_dir \in {None, S("out")} :
             /\ call = [fn |-> "get_event", fsids |-> [i \in 1..n |-> I(i)], csv |-> csv,
                        limit |-> I(100), output_dir |-> output_dir, date |-> Today]
             /\ pc = "product"
    /\ ret = Pending
    /\ fs = NoFiles
    /\ api = <<>>
    /\ frame = <<>>

NextHistoric ==
    \/ Validate \/ FetchSummary \/ FetchEvent \/ ReturnEvents \/ ReturnSummary
    \/ FetchProduct \/ ReturnProduct

SpecHistoric == InitHistoric /\ [][NextHistoric]_vars

(***************************************************************************)
(* Two formatter invocations run side by side, as a host may run them on   *)
(* separate batches.  call holds the two invocations [formatter, data];    *)
(* frame.objects are the record objects of the two batches, and            *)
(* frame.records[k] the local list invocation k has built of its batch so  *)
(* far; pc[k] and ret[k] are its position and its table.  A step is one    *)
(* iteration over the batch (the loop of a probability formatter, the      *)
(* comprehension [vars(o) for o in data] of the others) or the rest of the *)
(* function.  frame.interleaved records that a step was taken while the    *)
(* other invocation was under way.                                         *)
(***************************************************************************)
other(k) == 3 - k

under_way(k) == frame.records[k] # <<>> /\ pc[k] # "done"

\* An iteration that appends to one list all invocations share.
GatherShared(k) ==
    /\ pc[k] = "gather"
    /\ Len(frame.records[1]) + Len(frame.records[2]) < Len(frame.objects[k])
    /\ frame' = [frame EXCEPT
                    !.records[1] = Append(@, frame.objects[k][Len(frame.records[1]) +
                                                              Len(frame.records[2]) + 1]),
                    !.interleaved = @ \/ under_way(other(k))]
    /\ UNCHANGED <<call, ret, fs, pc, api>>

\* One iteration: the next record object of the invocation's own batch is
\* read into its local list.  No statement of a formatter assigns to a
\* record object or to a module-level name.
Gather(k) ==
    /\ pc[k] = "gather"
    /\ Len(frame.records[k]) < Len(frame.objects[k])
    /\ frame' = [frame EXCEPT
                    !.records[k] = Append(@, frame.objects[k][Len(frame.records[k]) + 1]),
                    !.interleaved = @ \/ under_way(other(k))]
    /\ UNCHANGED <<call, ret, fs, pc, api>>

\* The rest of the function, from the list it has built to its return.
Format(k) ==
    /\ pc[k] = "gather"
    /\ Len(frame.records[k]) = Len(frame.objects[k])
    /\ LET returns(df) == ret' = [ret EXCEPT ![k] = df]
       IN returns(run_formatter(call.invocations[k].formatter, frame.records[k]))
    /\ pc' = [pc EXCEPT ![k] = "done"]
    /\ frame' = [frame EXCEPT !.interleaved = @ \/ under_way(other(k))]
    /\ UNCHANGED <<call, fs, api>>

InitParallel ==
    /\ \E f \in [1..2 -> {"format_probability_count_summary", "format_adaptation_detail"}],
          ch \in [1..2 -> BatchChoices(1, {<<0, None>>, <<2, B(TRUE)>>})] :
          /\ call = [fn |-> "formatters",
                     invocations |-> [k \in 1..2 |-> [formatter |-> f[k],
                                                      data |-> sample_data(f[k], ch[k])]]]
          /\ frame = [objects |-> [k \in 1..2 |-> sample_data(f[k], ch[k])],
                      records |-> <<<<>>, <<>>>>, interleaved |-> FALSE]
    /\ ret = <<Pending, Pending>>
    /\ pc = <<"gather", "gather">>
    /\ fs = NoFiles
    /\ api = <<>>

NextParallel == \E k \in 1..2 : Gather(k) \/ Format(k)

SpecParallel == InitParallel /\ [][NextParallel]_vars

(***************************************************************************)
(* Properties.  Returned: a to_csv call has run; Written: it wrote its     *)
(* file, TheFile.                                                          *)
(***************************************************************************)
Returned == call.fn = "to_csv" /\ ret # Pending

Written == Returned /\ ret.raised = ""

TheFile == CHOOSE f \in fs.files : f.path = ret.path

\* The subtypes to_csv names under each product it names.
KnownSubtypes(product) ==
    CASE product = S("adaptation") -> {S("detail"), S("summary"), S("summary_detail")}
      [] product = S("probability") ->
            {S("chance"), S("count"), S("count-summary"), S("cumulative"), S("depth")}
      [] product = S("environmental") -> {S("precipitation")}
      [] product = S("historic") -> {S("event"), S("summary"), S("summary_event")}
      [] product = S("location") -> {S("detail"), S("summary")}
      [] product = S("fema") -> {S("nfip")}
      [] OTHER -> {}

\* The formatter of the pairs that have a single one.
SingleFormatter(product, product_subtype) ==
    "format_" \o product.s \o "_" \o
    (IF product_subtype = S("count-summary") THEN "count_summary" ELSE product_subtype.s)

\* The pairs whose formatter depends on the location type.
ByLocation ==
    {<<S("historic"), S("summary")>>, <<S("historic"), S("summary_event")>>,
     <<S("location"), S("detail")>>, <<S("location"), S("summary")>>}

UnknownTriple(c) ==
    \/ KnownSubtypes(c.product) = {}
    \/ c.product_subtype.k = "str" /\ c.product_subtype \notin KnownSubtypes(c.product)
    \/ /\ <<c.product, c.product_subtype>> \in ByLocation
       /\ c.location_type.k = "str"
       /\ c.location_type \notin LocationTypes

C2_valid_id_convention ==
    Written =>
        LET df == ret.df
            text == TheFile.text
        IN IF \A i \in DOMAIN df.rows : isna(df.rows[i].valid_id) \/ df.rows[i].valid_id = B(TRUE)
           THEN text.header = SelectSeq(df.cols, LAMBDA c : c # "valid_id")
           ELSE /\ text.header = df.cols
                /\ \A i \in DOMAIN df.rows :
                      text.rows[i].valid_id =
                          IF df.rows[i].valid_id = B(FALSE) THEN "False" ELSE "True"

\* A written table that kept valid_id, with a row whose valid_id was
\* missing and reads "True".
C2_witness ==
    /\ Written
    /\ "valid_id" \in Range(TheFile.text.header)
    /\ \E i \in DOMAIN ret.df.rows :
          ret.df.rows[i].valid_id = None /\ TheFile.text.rows[i].valid_id = "True"

\* The column list each formatter declares: the list of its final
\* selection, and for a composite formatter the columns of the join.
DeclaredColumns(formatter) ==
    CASE formatter = "format_adaptation_detail" ->
            <<"adaptationId", "valid_id", "name", "type", "scenario", "conveyance",
            "returnPeriod", "latitude", "longitude">>
      [] formatter = "format_adaptation_summary" ->
            <<"fsid", "valid_id", "adaptation", "properties">>
      [] formatter = "format_adaptation_summary_detail" ->
            <<"fsid", "valid_id", "adaptation", "properties", "name", "type", "scenario",
            "conveyance", "returnPeriod", "latitude", "longitude">>
      [] formatter = "format_probability_chance" ->
            <<"fsid", "valid_id", "year", "threshold", "low", "mid", "high">>
      [] formatter = "format_probability_count" ->
            <<"fsid", "valid_id", "year", "returnPeriod", "bin", "low", "mid", "high">>
      [] formatter = "format_probability_count_summary" ->
            <<"fsid", "valid_id", "location", "location_fips", "location_name", "subtype", "year",
            "low", "mid", "high">>
      [] formatter = "format_probability_cumulative" ->
            <<"fsid", "valid_id", "year", "threshold", "low", "mid", "high">>
      [] formatter = "format_probability_depth" ->
            <<"fsid", "valid_id", "year", "returnPeriod", "low", "mid", "high">>
      [] formatter = "format_environmental_precipitation" ->
            <<"fsid", "valid_id", "year", "low", "mid", "high">>
      [] formatter = "format_historic_event" ->
            <<"eventId", "valid_id", "name", "month", "year", "returnPeriod", "type",
            "propertiesTotal", "propertiesAffected", "latitude", "longitude">>
      [] formatter = "format_historic_summary_property" ->
            <<"fsid", "valid_id", "eventId", "name", "type", "depth">>
      [] formatter = "format_historic_summary" ->
            <<"fsid", "valid_id", "eventId", "name", "type", "bin", "count">>
      [] formatter = "format_historic_summary_event_property" ->
            <<"fsid", "valid_id", "eventId", "name_x", "type_x", "depth", "name_y", "month",
            "year", "returnPeriod", "type_y", "propertiesTotal", "propertiesAffected", "latitude",
            "longitude">>
      [] formatter = "format_historic_summary_event" ->
            <<"fsid", "valid_id", "eventId", "name_x", "type_x", "bin", "count", "name_y",
            "month", "year", "returnPeriod", "type_y", "propertiesTotal", "propertiesAffected",
            "latitude", "longitude">>
      [] formatter = "format_location_detail_property" ->
            <<"fsid", "valid_id", "streetNumber", "route", "city_fips", "city_name", "zipCode",
            "neighborhood_fips", "neighborhood_name", "tract_fips", "county_fips", "county_name",
            "cd_fips", "cd_name", "state_fips", "state_name", "footprintId", "elevation", "fema",
            "latitude", "longitude">>
      [] formatter = "format_location_detail_neighborhood" ->
            <<"fsid", "valid_id", "name", "city_fips", "city_name", "county_fips", "county_name",
            "subtype", "state_fips", "state_name", "latitude", "longitude">>
      [] formatter = "format_location_detail_city" ->
            <<"fsid", "valid_id", "name", "lsad", "zipCode", "neighborhood_fips",
            "neighborhood_name", "county_fips", "county_name", "state_fips", "state_name",
            "latitude", "longitude">>
      [] formatter = "format_location_detail_zcta" ->
            <<"fsid", "valid_id", "name", "city_fips", "city_name", "county_fips", "county_name",
            "state_fips", "state_name", "latitude", "longitude">>
      [] formatter = "format_location_detail_tract" ->
            <<"fsid", "valid_id", "fips", "county_fips", "county_name", "state_fips",
            "state_name", "latitude", "longitude">>
      [] formatter = "format_location_detail_county" ->
            <<"fsid", "valid_id", "city_fips", "city_name", "zipCode", "fips", "isCoastal",
            "cd_fips", "cd_name", "state_fips", "state_name", "latitude", "longitude">>
      [] formatter = "format_location_detail_cd" ->
            <<"fsid", "valid_id", "district", "county_fips", "county_name", "state_fips",
            "state_name", "latitude", "longitude">>
      [] formatter = "format_location_detail_state" ->
            <<"fsid", "valid_id", "name", "fips", "latitude", "longitude">>
      [] formatter = "format_location_summary_property" ->
            <<"fsid", "valid_id", "floodFactor", "riskDirection", "environmentalRisk", "historic",
            "adaptation">>
      [] formatter = "format_location_summary" ->
            <<"fsid", "valid_id", "riskDirection", "environmentalRisk", "propertiesTotal",
            "propertiesAtRisk", "historic">>
      [] formatter = "format_fema_nfip" ->
            <<"fsid", "valid_id", "claimCount", "policyCount", "buildingPaid", "contentPaid",
            "buildingCoverage", "contentCoverage", "iccPaid">>

GeomReturned == call.fn = "get_geom_center" /\ ret # Pending

\* C6: the latitude and longitude of a geometry are the y and x of the
\* centroid of its centre if that is a MultiPolygon, and of its centre if
\* that is a Point, whether or not it has top-level x and y as well; its
\* own y and x if it has both and no centre; and null, null otherwise.
C6_center_precedence ==
    GeomReturned =>
        IF hasattr(call.geom, "center")
        THEN LET center == call.geom.a.center
             IN /\ center.k = "MultiPolygon" =>
                      ret = D([latitude |-> center.centroid.y, longitude |-> center.centroid.x])
                /\ center.k = "Point" => ret = D([latitude |-> center.y, longitude |-> center.x])
        ELSE IF hasattr(call.geom, "x") /\ hasattr(call.geom, "y")
        THEN ret = D([latitude |-> call.geom.a.y, longitude |-> call.geom.a.x])
        ELSE ret = D([latitude |-> None, longitude |-> None])

\* A Point centre at (1, 1) beside top-level x = y = 0 resolved to (1, 1).
C6_witness ==
    /\ GeomReturned
    /\ hasattr(call.geom, "center") /\ hasattr(call.geom, "x") /\ hasattr(call.geom, "y")
    /\ call.geom.a.center = [k |-> "Point", x |-> float(1), y |-> float(1)]
    /\ call.geom.a.x = float(0) /\ call.geom.a.y = float(0)
    /\ ret = D([latitude |-> float(1), longitude |-> float(1)])

\* C7: a geometry whose centre is neither a MultiPolygon nor a Point, a
\* null centre included, makes get_geom_center raise NotImplementedError,
\* with or without top-level x and y.
C7_unsupported_center ==
    (GeomReturned /\ hasattr(call.geom, "center")
                  /\ call.geom.a.center.k \notin {"MultiPolygon", "Point"})
        => ret = Raised("NotImplementedError")

\* A null centre beside top-level x and y raised.
C7_witness ==
    /\ GeomReturned
    /\ hasattr(call.geom, "center") /\ hasattr(call.geom, "x") /\ hasattr(call.geom, "y")
    /\ call.geom.a.center = None
    /\ ret = Raised("NotImplementedError")

Max1(n) == IF n = 0 THEN 1 ELSE n

\* The rows of a table whose column col holds the identifier id.
RowsOf(df, col, id) == {r \in DOMAIN df.rows : df.rows[r][col] = S(ToString(id))}

\* The text of the elements of a list of strings; "null" alone for an empty
\* or missing list.
Elements(v) == IF ListLen(v) = 0 THEN {"null"} ELSE {v.l[j].s : j \in DOMAIN v.l}

CellText(v) == IF isna(v) THEN "null" ELSE v.s

DetailFormatted == Returned /\ ret.formatter = "format_adaptation_detail" /\ ret.df.err = ""

\* C4 as stated: an adaptation record with n types and m scenarios has n*m
\* rows, and exactly one row if either list is empty or null.
C4_one_row_if_either_empty ==
    DetailFormatted =>
        \A i \in DOMAIN call.data :
            LET n == ListLen(call.data[i].type)
                m == ListLen(call.data[i].scenario)
            IN Cardinality(RowsOf(ret.df, "adaptationId", i)) = IF n = 0 \/ m = 0 THEN 1 ELSE n * m

\* C4, amended: an adaptation record with n types and m scenarios has
\* max(1, n) * max(1, m) rows, one per pair of a type and a scenario, an
\* empty or null list counting as the single element null: n*m rows when
\* both lists have elements, and the length of the other list (one row only
\* if that is empty or null too) when one list is empty or null.
C4_row_count ==
    DetailFormatted =>
        \A i \in DOMAIN call.data :
            LET rows == RowsOf(ret.df, "adaptationId", i)
            IN /\ Cardinality(rows) = Max1(ListLen(call.data[i].type)) *
                                       Max1(ListLen(call.data[i].scenario))
               /\ {<<CellText(ret.df.rows[r].type), CellText(ret.df.rows[r].scenario)>> : r \in rows}
                      = Elements(call.data[i].type) \X Elements(call.data[i].scenario)

\* A record without types and with MaxList scenarios has MaxList rows.
C4_witness ==
    /\ DetailFormatted
    /\ MaxList > 1
    /\ call.data[1].type = L(<<>>)
    /\ ListLen(call.data[1].scenario) = MaxList
    /\ Cardinality(RowsOf(ret.df, "adaptationId", 1)) = MaxList

Composite == Returned /\ summary_of(ret.formatter) # "" /\ ret.df.err = ""

\* The two tables a composite formatter joins, and the labels of the join
\* keys in each.
SummaryTable == run_formatter(summary_of(ret.formatter), call.data[1].l)

DetailTable ==
    run_formatter(IF ret.formatter = "format_adaptation_summary_detail"
                  THEN "format_adaptation_detail" ELSE "format_historic_event",
                  call.data[2].l)

SummaryKeys ==
    IF ret.formatter = "format_adaptation_summary_detail" THEN <<"adaptation", "valid_id">>
    ELSE <<"eventId", "valid_id">>

DetailKeys ==
    IF ret.formatter = "format_adaptation_summary_detail" THEN <<"adaptationId", "valid_id">>
    ELSE <<"eventId", "valid_id">>

SameKey(a, b) == (isna(a) /\ isna(b)) \/ a = b

\* The rows of the detail table whose keys equal those of row s of the
\* summary table.
Hits(summary, detail, s) ==
    {d \in DOMAIN detail.rows :
        \A j \in DOMAIN SummaryKeys :
            SameKey(summary.rows[s][SummaryKeys[j]], detail.rows[d][DetailKeys[j]])}

\* Row r of the output carries row s of the summary table in its first
\* columns.
Carries(out, summary, r, s) ==
    \A j \in DOMAIN summary.cols : out.rows[r][out.cols[j]] = summary.rows[s][summary.cols[j]]

Copies(out, summary, s) == {r \in DOMAIN out.rows : Carries(out, summary, r, s)}

\* The columns of the output that come from the detail side.
DetailPart(out, summary) == {out.cols[j] : j \in Len(summary.cols) + 1 .. Len(out.cols)}

ExactlyOnce(out, summary) ==
    \A s \in DOMAIN summary.rows : Cardinality(Copies(out, summary, s)) = 1

LeftJoined(out, summary, detail) ==
    /\ \A s \in DOMAIN summary.rows :
          /\ Cardinality(Copies(out, summary, s)) = Max1(Cardinality(Hits(summary, detail, s)))
          /\ Hits(summary, detail, s) = {} =>
                \A r \in Copies(out, summary, s) :
                    \A c \in DetailPart(out, summary) : isna(out.rows[r][c])
    /\ \A r \in DOMAIN out.rows : \E s \in DOMAIN summary.rows : Carries(out, summary, r, s)

\* Summary row s has hits hits and is in the output copies times.
Repeated(out, summary, detail, hits, copies) ==
    \E s \in DOMAIN summary.rows :
        /\ Cardinality(Hits(summary, detail, s)) = hits
        /\ Cardinality(Copies(out, summary, s)) = copies

\* C5 as stated: every row of the formatted summary table is in the joined
\* output exactly once.
C5_exactly_once == Composite => ExactlyOnce(ret.df, SummaryTable)

\* C5, amended: every row of the formatted summary table is in the joined
\* output max(1, k) times, k the number of rows of the formatted detail or
\* event table with its join keys: once with the detail columns null when
\* there is none, and once beside each such row otherwise (an adaptation
\* with several types or scenarios has several).  Every output row carries
\* a summary row.
C5_left_join == Composite => LeftJoined(ret.df, SummaryTable, DetailTable)

\* A summary row of an adaptation that has MaxList types and MaxList
\* scenarios is in the output MaxList * MaxList times, beside a summary row
\* without a match, which is there once.
C5_witness ==
    /\ Composite
    /\ ret.formatter = "format_adaptation_summary_detail"
    /\ MaxList > 1
    /\ Repeated(ret.df, SummaryTable, DetailTable, MaxList * MaxList, MaxList * MaxList)
    /\ Repeated(ret.df, SummaryTable, DetailTable, 0, 1)

\* The formatters that explode one list field of their records, the field,
\* and the columns its elements are lifted into.
ExplodedField(formatter) ==
    CASE formatter = "format_adaptation_summary" -> "adaptation"
      [] formatter = "format_environmental_precipitation" -> "projected"
      [] formatter \in {"format_historic_summary_property", "format_historic_summary"} -> "historic"

ExplodedColumns(formatter) ==
    CASE formatter = "format_adaptation_summary" -> {"adaptation"}
      [] formatter = "format_environmental_precipitation" -> {"year", "low", "mid", "high"}
      [] formatter = "format_historic_summary_property" -> {"eventId", "name", "type", "depth"}
      [] formatter = "format_historic_summary" -> {"eventId", "name", "type", "bin", "count"}

\* C8: in the file written for a formatter that explodes a list field, a
\* record whose list is empty or null has exactly one row, with the null
\* token in every exploded column, and a record whose list has k >= 1
\* elements has k rows (k times its two bins in format_historic_summary).
C8_never_drops_a_record ==
    (Written /\ ret.formatter \in {"format_adaptation_summary", "format_environmental_precipitation",
                                   "format_historic_summary_property", "format_historic_summary"})
        => \A i \in DOMAIN call.data :
              LET k == ListLen(call.data[i][ExplodedField(ret.formatter)])
                  rows == RowsOf(ret.df, "fsid", i)
              IN IF k = 0
                 THEN /\ Cardinality(rows) = 1
                      /\ \A r \in rows : \A c \in ExplodedColumns(ret.formatter) :
                            TheFile.text.rows[r][c] = NA_STR
                 ELSE Cardinality(rows) =
                          IF ret.formatter = "format_historic_summary" THEN 2 * k ELSE k

\* The list-valued parent fields of each location-detail formatter, in the
\* order it explodes them.
ListParents(formatter) ==
    CASE formatter = "format_location_detail_property" -> <<"neighborhood">>
      [] formatter = "format_location_detail_neighborhood" -> <<"city", "county">>
      [] formatter = "format_location_detail_city" -> <<"zcta", "county", "neighborhood">>
      [] formatter = "format_location_detail_zcta" -> <<"city", "county">>
      [] formatter = "format_location_detail_tract" -> <<>>
      [] formatter = "format_location_detail_county" -> <<"city", "zcta", "cd">>
      [] formatter = "format_location_detail_cd" -> <<"county">>

\* For each parent field of each formatter, the output columns of the
\* parent's fsid and of its name ("" if the output has no such column).
ParentColumns(formatter) ==
    CASE formatter = "format_location_detail_property" ->
            [city |-> <<"city_fips", "city_name">>,
             neighborhood |-> <<"neighborhood_fips", "neighborhood_name">>,
             tract |-> <<"tract_fips", "">>, county |-> <<"county_fips", "county_name">>,
             cd |-> <<"cd_fips", "cd_name">>, state |-> <<"state_fips", "state_name">>]
      [] formatter = "format_location_detail_neighborhood" ->
            [city |-> <<"city_fips", "city_name">>, county |-> <<"county_fips", "county_name">>,
             state |-> <<"state_fips", "state_name">>]
      [] formatter = "format_location_detail_city" ->
            [zcta |-> <<"zipCode", "">>, county |-> <<"county_fips", "county_name">>,
             neighborhood |-> <<"neighborhood_fips", "neighborhood_name">>,
             state |-> <<"state_fips", "state_name">>]
      [] formatter = "format_location_detail_zcta" ->
            [city |-> <<"city_fips", "city_name">>, county |-> <<"county_fips", "county_name">>,
             state |-> <<"state_fips", "state_name">>]
      [] formatter = "format_location_detail_tract" ->
            [county |-> <<"county_fips", "county_name">>, state |-> <<"state_fips", "state_name">>]
      [] formatter = "format_location_detail_county" ->
            [city |-> <<"city_fips", "city_name">>, zcta |-> <<"zipCode", "">>,
             cd |-> <<"cd_fips", "cd_name">>, state |-> <<"state_fips", "state_name">>]
      [] formatter = "format_location_detail_cd" ->
            [county |-> <<"county_fips", "county_name">>, state |-> <<"state_fips", "state_name">>]

\* The rows expected of a batch: per record, one row per combination of an
\* element of each list-valued parent (None for an empty or missing list),
\* holding the record's fsid and the parent sub-record of each field.
RECURSIVE Fan(_, _)
Fan(rows, fields) ==
    IF fields = <<>> THEN rows
    ELSE Fan(ConcatAll([i \in DOMAIN rows |->
                LET v == rows[i][Head(fields)]
                IN IF ListLen(v) = 0 THEN <<[rows[i] EXCEPT ![Head(fields)] = None]>>
                   ELSE [j \in DOMAIN v.l |-> [rows[i] EXCEPT ![Head(fields)] = v.l[j]]]]),
             Tail(fields))

ExpectedParents(formatter, data) ==
    Fan([i \in DOMAIN data |->
            [f \in DOMAIN ParentColumns(formatter) \cup {"fsid"} |-> data[i][f]]],
        ListParents(formatter))

Pad2(s) == IF Len(s) = 1 THEN "0" \o s ELSE s

FipsText(field, sub) ==
    IF sub = None THEN NA_STR
    ELSE IF field = "state" THEN Pad2(ToString(sub.d.fsid.i))
    ELSE ToString(sub.d.fsid.i)

NameText(sub) == IF sub = None THEN NA_STR ELSE sub.d.name.s

Lifted(text, expected, columns) ==
    /\ Len(text.rows) = Len(expected)
    /\ \A r \in DOMAIN expected :
          /\ text.rows[r].fsid = ToString(expected[r].fsid.i)
          /\ \A f \in DOMAIN columns :
                /\ text.rows[r][columns[f][1]] = FipsText(f, expected[r][f])
                /\ columns[f][2] # "" => text.rows[r][columns[f][2]] = NameText(expected[r][f])

LocationWritten == Written /\ ret.formatter \in ParentFormatters

\* C9: the file of a location-detail formatter has one row per record and
\* combination of elements of its list-valued parents; in each row, for
\* each parent field, the parent's columns hold the fsid and the name of
\* the row's sub-record, and the null token if the row has none, whether
\* the field is missing in every record of the batch or only in some.
C9_parent_lifting ==
    LocationWritten =>
        Lifted(TheFile.text, ExpectedParents(ret.formatter, call.data), ParentColumns(ret.formatter))

\* A tract batch whose first record has a county and whose second has none:
\* the first row shows the county, the second the null token.
C9_witness ==
    /\ LocationWritten
    /\ ret.formatter = "format_location_detail_tract"
    /\ Len(call.data) = 2
    /\ call.data[1].county = County(1) /\ call.data[2].county = None
    /\ TheFile.text.rows[1].county_fips = "51" /\ TheFile.text.rows[1].county_name = "place51"
    /\ TheFile.text.rows[2].county_fips = NA_STR /\ TheFile.text.rows[2].county_name = NA_STR

StateFips(text, expected) ==
    \A r \in DOMAIN expected :
        IF expected[r].state = None THEN text.rows[r].state_fips = NA_STR
        ELSE /\ Len(text.rows[r].state_fips) = 2
             /\ text.rows[r].state_fips = Pad2(ToString(expected[r].state.d.fsid.i))

UnsupportedGeometry(r) ==
    /\ "geometry" \in DOMAIN r
    /\ r.geometry.k = "geom"
    /\ "center" \in DOMAIN r.geometry.a
    /\ r.geometry.a.center.k \notin {"MultiPolygon", "Point"}

\* C11: a to_csv call that raises, in the dispatch or in the formatter, has
\* written no file: an unsupported triple raises NotImplementedError without
\* a formatter run, a record with an unsupported geometry makes the
\* formatter raise NotImplementedError, an error of the formatter is the
\* error of the call, and in each case no file exists afterwards.  A call
\* that returns has written one file, with every row of the formatter's
\* table under its whole header (valid_id aside).
C11_no_partial_table ==
    Returned =>
        /\ ret.raised # "" => fs.files = {}
        /\ ret.formatter = "" => ret.raised \in {"NotImplementedError", "TypeError"}
        /\ (ret.formatter # "" /\ ret.df.err # "") => ret.raised = ret.df.err
        /\ (ret.formatter \in GeomFormatters
              /\ \E i \in DOMAIN call.data : UnsupportedGeometry(call.data[i]))
              => ret.raised = "NotImplementedError"
        /\ ret.raised = "" =>
              /\ Cardinality(fs.files) = 1
              /\ Len(TheFile.text.rows) = Len(ret.df.rows)
              /\ Range(TheFile.text.header) \cup {"valid_id"} = Range(ret.df.cols)

\* A formatter raised on the unsupported geometry of the second record of
\* its batch, after a first record it could format, and no file exists.
C11_witness ==
    /\ Returned
    /\ ret.formatter \in GeomFormatters
    /\ Len(call.data) = 2
    /\ ~UnsupportedGeometry(call.data[1])
    /\ UnsupportedGeometry(call.data[2])
    /\ ret.raised = "NotImplementedError"
    /\ fs.files = {}

\* C12: a to_csv call that returns has written its file at
\* <output_dir>/<date>_<product>_<subtype>[_<location_type>].csv, the
\* location segment there exactly when a location type other than None and
\* the empty string was given, <output_dir> being <cwd>/output_data when no
\* output directory (None or the empty string) was given, and the
\* directory exists afterwards whether or not it existed before.  Every
\* written file has its subtype segment: a call without a subtype (None)
\* raises TypeError while the name is built and writes nothing.
C12_output_path ==
    /\ (Returned /\ call.product_subtype = None) => (ret.raised = "TypeError" /\ fs.files = {})
    /\ Written =>
        LET dir == IF call.output_dir \in {None, S("")} THEN "<cwd>/output_data"
                   ELSE call.output_dir.s
            location == IF call.location_type \in {None, S("")} THEN ""
                        ELSE "_" \o call.location_type.s
        IN /\ ret.path = dir \o "/" \o call.date \o "_" \o call.product.s \o "_" \o
                          call.product_subtype.s \o location \o ".csv"
           /\ fs.files = {TheFile}
           /\ dir \in fs.dirs

\* A file was written without a location segment, for a location type
\* given as the empty string, in the default directory, created by the call.
C12_witness ==
    /\ Written
    /\ call.location_type = S("")
    /\ call.output_dir = None
    /\ ret.path = "<cwd>/output_data/2020_07_01_12_00_00_historic_summary.csv"
    /\ fs.dirs = {"<cwd>/output_data"}

\* The texts str() gives a missing value: None and float('nan').
StrOfMissing == {"None", "nan"}

\* C13: every value of the table a formatter returns is a string or null
\* (the valid_id flag aside), and every null of the written file is the one
\* missing-value token: no cell is the text of a missing value that went
\* through str().
C13_uniform_null_rendering ==
    Written =>
        /\ \A i \in DOMAIN ret.df.rows : \A c \in Range(ret.df.cols) \ {"valid_id"} :
              ret.df.rows[i][c].k = "str" \/ isna(ret.df.rows[i][c])
        /\ \A i \in DOMAIN TheFile.text.rows : \A c \in Range(TheFile.text.header) :
              TheFile.text.rows[i][c] \notin StrOfMissing

(***************************************************************************)
(* Historic.get_events_by_location when no summary has an event.           *)
(***************************************************************************)
NoEventSummaries ==
    /\ call.fn = "get_events_by_location"
    /\ "event" \in DOMAIN frame
    /\ \A i \in DOMAIN frame.summary : ~truthy(frame.summary[i].historic)

\* The file a method's to_csv call wrote.
MethodFile == CHOOSE f \in fs.files : f.path = ret.csv.path

\* Every row of table summary is in out exactly once, in order, and the
\* cells of the other columns of out are written as the missing-value token.
SummaryRowsOnly(out, summary, text) ==
    /\ out.err = "" /\ summary.err = ""
    /\ Len(out.rows) = Len(summary.rows)
    /\ \A r \in DOMAIN out.rows :
          /\ Carries(out, summary, r, r)
          /\ \A c \in DetailPart(out, summary) : c \in Range(text.header) => text.rows[r][c] = NA_STR

\* C14: when no summary record has an event, get_events_by_location makes
\* no event request (the summary request is the only one) and makes exactly
\* one event record, whose eventId is null; and, for at least one summary
\* record, format_historic_summary_event raises nothing and returns every
\* row of the summary table once with every event-side column null.
C14_empty_detail_guard ==
    NoEventSummaries =>
        /\ Len(api) = 1 /\ api[1].product_subtype = "summary"
        /\ Len(frame.event) = 1 /\ frame.event[1].eventId = None
        /\ (pc = "done" /\ call.csv /\ frame.summary # <<>>) =>
              /\ ret.raised = ""
              /\ ret.csv.formatter = "format_historic_summary_event"
              /\ SummaryRowsOnly(ret.csv.df, format_historic_summary(frame.summary),
                                 MethodFile.text)
              /\ Cardinality(DetailPart(ret.csv.df, format_historic_summary(frame.summary))) = 9

\* Two summaries without events, one with a null and one with an empty
\* historic list, were written by get_events_by_location.
C14_witness ==
    /\ NoEventSummaries
    /\ pc = "done" /\ call.csv
    /\ Len(frame.summary) = MaxBatch
    /\ frame.summary[1].historic = None
    /\ frame.summary[MaxBatch].historic = L(<<>>)
    /\ ret.raised = ""
    /\ Len(MethodFile.text.rows) = MaxBatch

(***************************************************************************)
(* Float rounding of low / mid / high.                                     *)
(***************************************************************************)
RoundingFormatters ==
    {"format_probability_chance", "format_probability_cumulative",
     "format_environmental_precipitation"}

\* C15: in format_probability_chance, format_probability_cumulative and
\* format_environmental_precipitation every present low / mid / high value
\* of the returned table is rounded to 3 digits (rounding it again changes
\* nothing), and a null one is null.
C15_float_rounding ==
    (Returned /\ ret.formatter \in RoundingFormatters /\ ret.df.err = "") =>
        \A r \in DOMAIN ret.df.rows : \A c \in {"low", "mid", "high"} :
            LET v == ret.df.rows[r][c] IN isna(v) \/ (v.k = "float" /\ round3(v) = v)

MalformedCall ==
    /\ Returned
    /\ ret.formatter \in MalformedFormatters
    /\ \E i \in DOMAIN call.data :
          call.data[i] # Sample(ret.formatter, i, 2, B(TRUE))

\* C17: a batch in which the list field of a record is a scalar, or a list
\* whose element lacks the inner key, is formatted and written, with at
\* least one row for every record.
C17_malformed_never_fatal ==
    MalformedCall =>
        /\ ret.raised = ""
        /\ \A i \in DOMAIN call.data :
              \E r \in DOMAIN ret.df.rows :
                  ret.df.rows[r][ret.df.cols[1]] \in {S(ToString(i)), I(i)}

(***************************************************************************)
(* Null-safety of the probability shapes.                                  *)
(***************************************************************************)
ProbabilityShapes ==
    {"format_probability_chance", "format_probability_count", "format_probability_cumulative",
     "format_probability_depth"}

MetricField(formatter) ==
    CASE formatter = "format_probability_chance" -> "chance"
      [] formatter = "format_probability_count" -> "count"
      [] formatter = "format_probability_cumulative" -> "cumulative"
      [] formatter = "format_probability_depth" -> "depth"

\* The rows of table df for the record with fsid i.
RecordRows(df, i) == {r \in DOMAIN df.rows : df.rows[r]["fsid"] = S(ToString(i))}

NoMetrics(formatter, record) == ListLen(record[MetricField(formatter)]) = 0

\* C18: a batch of a probability shape (chance, count, cumulative, depth)
\* is always formatted and written; every record has at least one row, and
\* a record whose metric list is null or empty has exactly one, with its
\* valid_id and with every metric column written as the missing-value
\* token.
C18_probability_null_safety ==
    (Returned /\ ret.formatter \in ProbabilityShapes /\ call.data # <<>>) =>
        /\ ret.raised = ""
        /\ \A i \in DOMAIN call.data :
              /\ RecordRows(ret.df, i) # {}
              /\ NoMetrics(ret.formatter, call.data[i]) =>
                    /\ Cardinality(RecordRows(ret.df, i)) = 1
                    /\ \A r \in RecordRows(ret.df, i) :
                          /\ ret.df.rows[r]["valid_id"] = call.data[i].valid_id
                          /\ \A c \in Range(ret.df.cols) \ {"fsid", "valid_id"} :
                                TheFile.text.rows[r][c] = NA_STR

(***************************************************************************)
(* Historic.get_events_by_location and Historic.get_summary: validation    *)
(* and the order of the requests.                                          *)
(***************************************************************************)
\* What the argument check is to raise for a location type.
Rejected(fn, location_type) ==
    IF location_type \in {None, S(""), I(0)} THEN "InvalidArgument"
    ELSE IF location_type \in {I(7)} THEN "TypeError"
    ELSE IF fn = "get_events_by_location" /\ location_type = S("property") THEN "InvalidArgument"
    ELSE ""

\* C19: in get_events_by_location and get_summary a falsy location_type
\* raises InvalidArgument, a non-empty one that is not a string TypeError
\* and, in get_events_by_location only, 'property' InvalidArgument, in that
\* order; a rejected call makes no call_api request and writes no file at
\* any point, and every other call (get_summary with 'property' among
\* them) is not rejected and makes its summary request.
C19_validation_first ==
    call.fn \in {"get_events_by_location", "get_summary"} =>
        IF Rejected(call.fn, call.location_type) # ""
        THEN /\ api = <<>> /\ fs = NoFiles /\ frame = <<>>
             /\ pc \in {"validate", "done"}
             /\ pc = "done" => ret = Raises(Rejected(call.fn, call.location_type))
        ELSE /\ pc \notin {"validate", "done"} => ret = Pending
             /\ pc \notin {"validate", "summary"} =>
                   Len(api) >= 1 /\ api[1].product_subtype = "summary"
             /\ pc = "done" => ret.raised \notin {"InvalidArgument", "TypeError"}

\* get_events_by_location, asked for a file of the events of properties,
\* has raised InvalidArgument.
C19_witness ==
    /\ call.fn = "get_events_by_location"
    /\ call.location_type = S("property")
    /\ call.csv
    /\ pc = "done"
    /\ ret.raised = "InvalidArgument"
    /\ api = <<>>
    /\ fs = NoFiles

\* The eventId values in the historic lists of the summaries.
EventIdsOf(summary) ==
    {id \in {I(j) : j \in 1..MaxList} :
        \E i \in DOMAIN summary :
            /\ ListLen(summary[i].historic) > 0
            /\ \E n \in DOMAIN summary[i].historic.l : summary[i].historic.l[n].d.eventId = id}

\* C20: get_events_by_location makes the summary request first and at most
\* one event request, after the summaries are there; once past its event
\* step it has made the event request exactly when a summary has a
\* non-empty historic list, and the ids of that request are the distinct
\* eventId values of the summaries, each once.
C20_fetch_ordering ==
    call.fn = "get_events_by_location" =>
        /\ Len(api) <= 2
        /\ Len(api) >= 1 =>
              api[1] = call_api(call.fsids, "historic", "summary", call.location_type, call.limit)
        /\ Len(api) = 2 =>
              /\ "event" \in DOMAIN frame
              /\ api[2].product = "historic" /\ api[2].product_subtype = "event"
              /\ api[2].location = None
              /\ Range(api[2].fsids) = EventIdsOf(frame.summary)
              /\ Len(api[2].fsids) = Cardinality(EventIdsOf(frame.summary))
        /\ "event" \in DOMAIN frame =>
              /\ Len(api) = 2 <=> \E i \in DOMAIN frame.summary : ListLen(frame.summary[i].historic) > 0
              /\ Len(api) = 2 => Len(frame.event) = Len(api[2].fsids)

\* Two summaries that share event 1, one of them with MaxList events, beside
\* the one event request made for them, of MaxList ids.
C20_witness ==
    /\ call.fn = "get_events_by_location"
    /\ pc = "done"
    /\ "event" \in DOMAIN frame
    /\ Len(frame.summary) = MaxBatch
    /\ ListLen(frame.summary[1].historic) = 1
    /\ ListLen(frame.summary[MaxBatch].historic) = MaxList
    /\ Len(api) = 2
    /\ Len(api[2].fsids) = MaxList
    /\ MaxList > 1

(***************************************************************************)
(* The to_csv call of the Historic methods.                                *)
(***************************************************************************)
HistoricMethods == {"get_event", "get_events_by_location", "get_summary"}

\* The method has passed its argument validation (get_event has none).
Accepted == call.fn = "get_event" \/ Rejected(call.fn, call.location_type) = ""

\* The requests the method makes in all, given what it has fetched.
AllFetched ==
    CASE call.fn = "get_event" -> Len(api) = 1 /\ "product" \in DOMAIN frame
      [] call.fn = "get_summary" -> Len(api) = 1 /\ "summary" \in DOMAIN frame
      [] call.fn = "get_events_by_location" ->
            /\ "event" \in DOMAIN frame
            /\ Len(api) = IF EventIdsOf(frame.summary) = {} THEN 1 ELSE 2

\* The records the method has fetched, as it returns them.
Fetched ==
    CASE call.fn = "get_event" -> frame.product
      [] call.fn = "get_summary" -> frame.summary
      [] call.fn = "get_events_by_location" -> <<frame.summary, frame.event>>

\* The to_csv call that goes with the requests of the method: the fetched
\* records under the product, subtype and location type they were fetched
\* for (the pair of summaries and events as historic summary_event).
ExpectedExport ==
    CASE call.fn = "get_event" ->
            Call(frame.product, S(api[1].product), S(api[1].product_subtype), api[1].location,
                 call.output_dir)
      [] call.fn = "get_summary" ->
            Call(frame.summary, S(api[1].product), S(api[1].product_subtype), api[1].location,
                 call.output_dir)
      [] call.fn = "get_events_by_location" ->
            Call(<<L(frame.summary), L(frame.event)>>, S(api[1].product), S("summary_event"),
                 api[1].location, call.output_dir)

RejectedTriple ==
    /\ Returned
    /\ UnknownTriple(call)
    /\ ret.formatter = ""
    /\ ret.raised = "NotImplementedError"

\* C22: when to_csv rejects an unsupported (product, subtype,
\* location_type) triple, the call has had no effect on the filesystem:
\* started without any directory or file, it has created no output
\* directory and has written no file.
C22_rejection_before_effects ==
    RejectedTriple => fs = NoFiles

\* ------------------------------------------------------------------
\* The valid_id column of the table that reaches the export step
\* ------------------------------------------------------------------

\* A formatter selected by the dispatcher returned its table to to_csv.
TableReturned ==
    /\ Returned
    /\ ret.formatter \in Formatters
    /\ ret.df.err = ""

\* The positions of the table's columns that are named c.
Named(c) == {i \in DOMAIN ret.df.cols : ret.df.cols[i] = c}

\* C23: the table a formatter hands to the export step of to_csv has
\* exactly one column named valid_id, and no valid_id_x or valid_id_y
\* that a join would have made of two of them, so that the valid_id test
\* of the export step does not raise and the file is written.
C23_single_valid_id ==
    TableReturned =>
        /\ Cardinality(Named("valid_id")) = 1
        /\ Named("valid_id_x") = {}
        /\ Named("valid_id_y") = {}
        /\ ret.raised = ""

\* A composite formatter joined a summary table and an event table that
\* both have a valid_id column, and its table went on to be written.
C23_witness ==
    /\ TableReturned
    /\ Composite
    /\ Len(ret.df.rows) > 0
    /\ Cardinality(Named("valid_id")) = 1
    /\ Written

\* ------------------------------------------------------------------
\* Row count of format_adaptation_summary_detail
\* ------------------------------------------------------------------

\* format_adaptation_summary_detail returned its table.
AdaptationJoined == Composite /\ ret.formatter = "format_adaptation_summary_detail"

\* The rows of the formatted detail table whose adaptationId and valid_id
\* both equal the adaptation and valid_id of row s of the formatted
\* summary table.
Matches(s) ==
    {d \in DOMAIN DetailTable.rows :
        /\ DetailTable.rows[d].adaptationId = SummaryTable.rows[s].adaptation
        /\ DetailTable.rows[d].valid_id = SummaryTable.rows[s].valid_id}

\* The type x scenario combinations of a detail record: a list that is
\* empty or null stands in its row as one null.
Combinations(record) == Max1(ListLen(record.type)) * Max1(ListLen(record.scenario))

\* C24: in the table of format_adaptation_summary_detail every row of the
\* formatted summary table is there max(1, k) times, k the number of rows
\* of the formatted detail table with its adaptation and valid_id; the
\* detail table has one row per type x scenario combination of each
\* adaptation, so a matched summary row is there once per combination;
\* and the table has no adaptationId column.
C24_summary_detail_rows ==
    AdaptationJoined =>
        /\ \A s \in DOMAIN SummaryTable.rows :
              Cardinality(Copies(ret.df, SummaryTable, s)) = Max1(Cardinality(Matches(s)))
        /\ \A j \in DOMAIN call.data[2].l :
              Cardinality(RowsOf(DetailTable, "adaptationId", call.data[2].l[j].adaptationId.i))
                 = Combinations(call.data[2].l[j])
        /\ "adaptationId" \notin Range(ret.df.cols)

\* A summary row whose adaptation has several type x scenario combinations
\* is in the table once per combination, beside a summary row of an
\* adaptation without a detail record, which is there once.
C24_witness ==
    /\ AdaptationJoined
    /\ \E s \in DOMAIN SummaryTable.rows :
          /\ Cardinality(Matches(s)) > 1
          /\ Cardinality(Copies(ret.df, SummaryTable, s)) = Cardinality(Matches(s))
    /\ \E s \in DOMAIN SummaryTable.rows :
          /\ SummaryTable.rows[s].adaptation # S("<NA>")
          /\ Matches(s) = {}
          /\ Cardinality(Copies(ret.df, SummaryTable, s)) = 1
    /\ "adaptationId" \notin Range(ret.df.cols)

====
